---- MODULE Spec2Model ----
(***************************************************************************)
(* A model of the DCA trading workflow of binance_azure_sdk:               *)
(*   - the portfolio valuation of PortfolioReporter over Trade_History,    *)
(*   - the wallet filter of BinanceManager.get_wallet_balances,            *)
(*   - the order checks of BinanceManager.create_order and its helper.     *)
(* Floating-point amounts are integers; a float division is kept as the    *)
(* pair (numerator, denominator), or as NaN / inf when the divisor is 0,   *)
(* which is what pandas yields for a Series division by zero.              *)
(***************************************************************************)
EXTENDS Integers, Sequences, FiniteSets, TLC

VARIABLES
    trade_history,   \* rows of the Trade_History table, in insertion order
    report,          \* the run of generate_and_send_report of the current job run
    wallet_call,     \* the last call of get_wallet_balances
    limits_call,     \* the last call of validate_trade_limits
    order_call,      \* the last call of create_order
    min_trade_amount, \* BinanceManager.min_trade_amount (config.yaml)
    funds_call,      \* the last call of has_sufficient_funds
    config,          \* DCAConfigLoader.config: the loaded config.yaml
    config_call,     \* the last call of get_user_config
    secret_call,     \* the last call of AzureKeyVaultManager.get_secret
    setup,           \* the last construction of the managers
    tables,          \* rows of the other tables of the database, per table
    db_call,         \* the last operation of AzureDatabaseManager
    sync,            \* the run of the database sync workflow
    normalize_call,  \* the last call of a normalizer
    notify_call,     \* the last call of check_and_notify
    status_call,     \* the last call of check_market_status
    history_call,    \* the last call of get_trade_history_last_24h
    exchange_trades, \* the trades of the account on the exchange, oldest first
    today,           \* the calendar month of datetime.now(), counted from the first
    runs,            \* the runs of the portfolio summary job so far
    entry_call,      \* the last run of an entry point
    cancel_call      \* the last call of cancel_all_open_orders_for_asset

job_vars == <<trade_history, report, wallet_call, limits_call, order_call,
              min_trade_amount>>
manager_vars == <<report, wallet_call, limits_call, order_call, min_trade_amount>>
funds_vars == <<funds_call>>
loader_vars == <<config, config_call>>
setup_vars == <<secret_call, setup>>
db_vars == <<tables, db_call>>
sync_vars == <<sync>>
normalizer_vars == <<normalize_call>>
notifier_vars == <<notify_call>>
status_vars == <<status_call>>
history_vars == <<history_call>>
exchange_vars == <<exchange_trades, today, runs>>
entry_vars == <<entry_call>>
cancel_vars == <<cancel_call>>

\* the state of the other components, which the jobs above leave alone
aux_vars == <<funds_vars, loader_vars, setup_vars, db_vars, sync_vars,
              normalizer_vars,
    notifier_vars,
    status_vars,
    history_vars,
    exchange_vars,
    entry_vars,
    cancel_vars>>

\* the state outside each component
outside_funds == <<job_vars, loader_vars, setup_vars, db_vars, sync_vars,
                   normalizer_vars,
    notifier_vars,
    status_vars,
    history_vars,
    exchange_vars,
    entry_vars,
    cancel_vars>>
outside_loader == <<job_vars, funds_vars, setup_vars, db_vars, sync_vars,
                    normalizer_vars,
    notifier_vars,
    status_vars,
    history_vars,
    exchange_vars,
    entry_vars,
    cancel_vars>>
outside_setup == <<job_vars, funds_vars, loader_vars, db_vars, sync_vars,
                   normalizer_vars,
    notifier_vars,
    status_vars,
    history_vars,
    exchange_vars,
    entry_vars,
    cancel_vars>>
outside_db == <<manager_vars, funds_vars, loader_vars, setup_vars, sync_vars,
                normalizer_vars,
    notifier_vars,
    status_vars,
    history_vars,
    exchange_vars,
    entry_vars,
    cancel_vars>>
outside_sync == <<manager_vars, funds_vars, loader_vars, setup_vars,
                  normalizer_vars,
    notifier_vars,
    status_vars,
    history_vars,
    exchange_vars,
    entry_vars,
    cancel_vars>>
outside_normalizer == <<job_vars, funds_vars, loader_vars, setup_vars, db_vars,
                        sync_vars,
    notifier_vars,
    status_vars,
    history_vars,
    exchange_vars,
    entry_vars,
    cancel_vars>>
outside_notifier == <<job_vars, funds_vars, loader_vars, setup_vars, db_vars, sync_vars, normalizer_vars,
    status_vars,
    history_vars,
    exchange_vars,
    entry_vars,
    cancel_vars>>
outside_status == <<job_vars, funds_vars, loader_vars, setup_vars, db_vars, sync_vars, normalizer_vars, notifier_vars,
    history_vars,
    exchange_vars,
    entry_vars,
    cancel_vars>>
outside_history == <<job_vars, funds_vars, loader_vars, setup_vars, db_vars, sync_vars, normalizer_vars, notifier_vars, status_vars,
    exchange_vars,
    entry_vars,
    cancel_vars>>
\* the state outside the portfolio summary job and the exchange it reads
outside_summary == <<wallet_call, limits_call, order_call, min_trade_amount,
                     funds_vars, loader_vars, setup_vars, db_vars, sync_vars, normalizer_vars, notifier_vars, status_vars, history_vars,
    entry_vars,
    cancel_vars>>
outside_entry == <<job_vars, funds_vars, loader_vars, setup_vars, db_vars, sync_vars, normalizer_vars, notifier_vars, status_vars, history_vars, exchange_vars,
    cancel_vars>>
outside_cancel == <<job_vars, funds_vars, loader_vars, setup_vars, db_vars, sync_vars, normalizer_vars, notifier_vars, status_vars, history_vars, exchange_vars, entry_vars>>

vars == <<trade_history, report, wallet_call, limits_call, order_call,
          min_trade_amount, aux_vars>>

-----------------------------------------------------------------------------
(* Bounds of the model *)

MaxTrades == 2
MaxWallet == 2
MaxRows == 2
MaxRecords == 2
MaxPairs == 2
MaxMonths == 3
MaxRuns == 2
MaxOrders == 2

-----------------------------------------------------------------------------
(* Values *)

None == "None"

Symbols == {"BTCUSDC", "ETHUSDC"}

\* what the is_buyer column of a fetched row may hold: the BIT as a Python
\* bool, or None for NULL
IsBuyerValues == {"True", "False", None}

\* (quantity, quote_quantity) of a stored trade
TradeAmounts == {<<0, 0>>, <<0, 100>>, <<1, 100>>}

TradeRows ==
    {[symbol |-> s, quantity |-> a[1], quote_quantity |-> a[2], is_buyer |-> b] :
        s \in Symbols, a \in TradeAmounts, b \in IsBuyerValues}

Prices == {50, 150}

RECURSIVE SeqsUpTo(_, _)
SeqsUpTo(S, n) ==
    IF n = 0 THEN {<<>>}
    ELSE LET shorter == SeqsUpTo(S, n - 1)
         IN  shorter \cup {Append(q, x) : q \in {r \in shorter : Len(r) = n - 1}, x \in S}

-----------------------------------------------------------------------------
(* Float arithmetic *)

NaN == [kind |-> "nan"]
Inf == [kind |-> "inf"]

\* n / d on floats held in a DataFrame column: 0/0 is NaN, x/0 is inf
FloatDiv(n, d) ==
    IF d = 0
    THEN IF n = 0 THEN NaN ELSE Inf
    ELSE [kind |-> "num", n |-> n, d |-> d]

IsFinite(x) == x.kind = "num"

\* the float x equals the integer v
FloatEq(x, v) == IsFinite(x) /\ x.n = v * x.d

-----------------------------------------------------------------------------
(* PortfolioReporter._calculate_assets_balances *)

\* Series.astype(bool): the truth value of each cell; None is falsy
AsTypeBool(v) == IF v = None THEN FALSE ELSE v = "True"

RECURSIVE SumColumn(_, _)
SumColumn(rows, col) ==
    IF rows = <<>> THEN 0
    ELSE Head(rows)[col] + SumColumn(Tail(rows), col)

\* df[df["is_buyer"]]
Buys(trades) == SelectSeq(trades, LAMBDA t : AsTypeBool(t.is_buyer))

\* df[~df["is_buyer"]]
Sells(trades) == SelectSeq(trades, LAMBDA t : ~AsTypeBool(t.is_buyer))

\* the rows of one group of groupby("symbol")
Group(rows, s) == SelectSeq(rows, LAMBDA t : t.symbol = s)

GroupKeys(rows) == {rows[i].symbol : i \in DOMAIN rows}

\* grouped_buys.merge(grouped_sells, how="left", on="symbol"): the keys of the
\* result are the keys of the left frame
MergeLeftKeys(buys, sells) == GroupKeys(buys)

\* the "average_price" column
AveragePrice(total_spend, total_bought) == FloatDiv(total_spend, total_bought)

\* the "current_quantity" column
CurrentQuantityBoughtOnly(total_bought, total_sold) == total_bought

CurrentQuantity(total_bought, total_sold) == total_bought - total_sold

\* the dict returned for a non-empty table: symbol -> position
AssetsBalances(trades) ==
    LET buys == Buys(trades)
        sells == Sells(trades)
    IN  [s \in MergeLeftKeys(buys, sells) |->
            LET total_spend == SumColumn(Group(buys, s), "quote_quantity")
                total_bought == SumColumn(Group(buys, s), "quantity")
                \* fillna(0): a symbol without sells has sold 0
                total_sold == SumColumn(Group(sells, s), "quantity")
            IN  [total_spend |-> total_spend,
                 average_price |-> AveragePrice(total_spend, total_bought),
                 current_quantity |-> CurrentQuantity(total_bought, total_sold)]]

-----------------------------------------------------------------------------
(* PortfolioReporter._calculate_current_values *)

ValueChangePercentageUnguarded(value_change, total_spend) ==
    FloatDiv(value_change * 100, total_spend)

ValueChangePercentage(value_change, total_spend) ==
    IF total_spend > 0
    THEN FloatDiv(value_change * 100, total_spend)
    ELSE FloatDiv(0, 1)

CurrentValue(data, current_price) == data.current_quantity * current_price

\* one iteration of the loop body, for a price the exchange returned
CurrentValueRow(data, current_price) ==
    LET current_value == CurrentValue(data, current_price)
        value_change == current_value - data.total_spend
    IN  [total_spend |-> data.total_spend,
         average_price |-> data.average_price,
         current_quantity |-> data.current_quantity,
         current_price |-> current_price,
         current_value |-> current_value,
         value_change |-> value_change,
         value_change_percentage |->
             ValueChangePercentage(value_change, data.total_spend)]

CurrentValues(assets_data, ticker) ==
    [s \in DOMAIN assets_data |-> CurrentValueRow(assets_data[s], ticker[s])]

-----------------------------------------------------------------------------
(* PortfolioReporter._calculate_total_and_value_change *)

RECURSIVE SumOver(_, _)
SumOver(f, col) ==
    IF DOMAIN f = {} THEN 0
    ELSE LET s == CHOOSE x \in DOMAIN f : TRUE
         IN  f[s][col] + SumOver([t \in DOMAIN f \ {s} |-> f[t]], col)

TotalValueChangePercentage(total_value_change, total_spend_sum) ==
    IF total_spend_sum > 0
    THEN FloatDiv(total_value_change * 100, total_spend_sum)
    ELSE FloatDiv(0, 1)

\* total_value_change taken as total_spend_sum - current_value_sum
TotalAndValueChangeOfSpend(assets_value) ==
    LET total_spend_sum == SumOver(assets_value, "total_spend")
        current_value_sum == SumOver(assets_value, "current_value")
        total_value_change == total_spend_sum - current_value_sum
    IN  [total_spend_sum |-> total_spend_sum,
         current_value_sum |-> current_value_sum,
         total_value_change |-> total_value_change,
         value_change_percentage |->
             TotalValueChangePercentage(total_value_change, total_spend_sum)]

TotalAndValueChange(assets_value) ==
    LET total_spend_sum == SumOver(assets_value, "total_spend")
        current_value_sum == SumOver(assets_value, "current_value")
        total_value_change == current_value_sum - total_spend_sum
    IN  [total_spend_sum |-> total_spend_sum,
         current_value_sum |-> current_value_sum,
         total_value_change |-> total_value_change,
         value_change_percentage |->
             TotalValueChangePercentage(total_value_change, total_spend_sum)]

-----------------------------------------------------------------------------
(* The exchange's answers *)

Assets == {"USDC", "BTC"}

\* One 1e-8 of an asset, the precision of the exchange's amounts, in the
\* model's amount unit; round(x, 8) rounds to a multiple of it.
Unit == 10

\* the amounts the exchange reports: multiples of Unit
FreeAmounts == {0, Unit, 2 * Unit}
LockedAmounts == {0, Unit}

BalanceRows ==
    {[asset |-> a, free |-> f, locked |-> l] :
        a \in Assets, f \in FreeAmounts, l \in LockedAmounts}

\* the "balances" list of GET /api/v3/account: one entry per asset the
\* exchange lists, zero amounts included, no asset twice
BalanceLists ==
    {b \in SeqsUpTo(BalanceRows, MaxWallet) :
        /\ Len(b) >= 1
        /\ \A i, j \in DOMAIN b : i /= j => b[i].asset /= b[j].asset}

\* what client.account() does: raises ClientError, or returns a dict with or
\* without the "balances" key
ClientError == [kind |-> "ClientError"]
NoBalancesField == [kind |-> "dict", has_balances |-> FALSE]

AccountResponses ==
    {ClientError, NoBalancesField}
    \cup {[kind |-> "dict", has_balances |-> TRUE, balances |-> b] : b \in BalanceLists}

-----------------------------------------------------------------------------
(* Outcomes of a call *)

Raised(exc, msg) == [outcome |-> "raised", exc |-> exc, msg |-> msg]
Returned(v) == [outcome |-> "returned", value |-> v]
NotCalled == [outcome |-> "none"]

\* DCAConfigLoader before its configuration is loaded
NoConfig == <<>>

\* the tables other than Trade_History, empty
NoRows ==
    [Market_Capitalization_History |-> <<>>, Portfolio_Balance |-> <<>>,
     Daily_High_Price |-> <<>>]

FundsIdle == funds_call = NotCalled
LoaderIdle == config = NoConfig /\ config_call = NotCalled
SetupIdle == secret_call = NotCalled /\ setup = NotCalled
DbIdle == tables = NoRows /\ db_call = NotCalled
SyncIdle == sync = NotCalled
NormalizerIdle == normalize_call = NotCalled
NotifierIdle == notify_call = NotCalled
StatusIdle == status_call = NotCalled
HistoryIdle == history_call = NotCalled
ExchangeIdle == exchange_trades = <<>> /\ today = 1 /\ runs = 0
EntryIdle == entry_call = NotCalled
CancelIdle == cancel_call = NotCalled

\* no call of the other components was made
AuxIdle ==
    /\ FundsIdle
    /\ LoaderIdle
    /\ SetupIdle
    /\ DbIdle
    /\ SyncIdle
    /\ NormalizerIdle
    /\ NotifierIdle
    /\ StatusIdle
    /\ HistoryIdle
    /\ ExchangeIdle
    /\ EntryIdle
    /\ CancelIdle

-----------------------------------------------------------------------------
(* BinanceManager.get_wallet_balances *)

\* round(x, 8), Python's round-half-even
Round8(x) ==
    LET q == x \div Unit
        r == x % Unit
    IN  IF 2 * r < Unit THEN q * Unit
        ELSE IF 2 * r > Unit THEN (q + 1) * Unit
        ELSE IF q % 2 = 0 THEN q * Unit ELSE (q + 1) * Unit

\* (balances["free"] != 0) | (balances["locked"] != 0)
NonZeroBoth(row) == row.free /= 0 /\ row.locked /= 0

NonZero(row) == row.free /= 0 \/ row.locked /= 0

RoundRow(row) ==
    [asset |-> row.asset, free |-> Round8(row.free), locked |-> Round8(row.locked)]

\* filtered_balances[["free", "locked"]].map(lambda x: round(x, 8))
RoundRows(rows) == [i \in DOMAIN rows |-> RoundRow(rows[i])]

\* the wallet property (handle_binance_manager_errors around client.account())
\* followed by the body of get_wallet_balances
GetWalletBalances(response) ==
    IF response.kind = "ClientError"
    THEN Raised("RuntimeError", "Binance API error")
    ELSE IF ~response.has_balances
    THEN Raised("ValueError", "Invalid wallet response")
    ELSE IF response.balances = <<>>
    \* a frame built from an empty list has no "free" column to select
    THEN Raised("KeyError", "free, locked")
    ELSE Returned(RoundRows(SelectSeq(response.balances, NonZero)))

-----------------------------------------------------------------------------
(* BinanceManager.get_current_symbol_price *)

\* what client.ticker_price(symbol) does: raises ClientError or returns a price
TickerResponses ==
    {[kind |-> "ClientError", price |-> 0]}
    \cup {[kind |-> "price", price |-> p] : p \in Prices}

GetCurrentSymbolPrice(response) ==
    IF response.kind = "ClientError"
    THEN Raised("RuntimeError", "Binance API error")
    ELSE Returned(response.price)

-----------------------------------------------------------------------------
(* BaseNotifier.calculate_usdc_balance, given the frame get_wallet_balances
   returned *)

CalculateUsdcBalance(df_balances) ==
    LET usdc_row == SelectSeq(df_balances, LAMBDA r : r.asset = "USDC")
    IN  IF usdc_row = <<>> THEN 0 ELSE usdc_row[1].free + usdc_row[1].locked

-----------------------------------------------------------------------------
(* PortfolioReporter.generate_and_send_report, as notify_portfolio_summary.main
   runs it: an exception it raises ends the run *)

\* the account answers a report run is tried with
ReportAccountResponses ==
    {ClientError, NoBalancesField,
     [kind |-> "dict", has_balances |-> TRUE,
      balances |-> <<[asset |-> "USDC", free |-> Unit, locked |-> Unit]>>],
     [kind |-> "dict", has_balances |-> TRUE,
      balances |-> <<[asset |-> "BTC", free |-> Unit, locked |-> 0]>>]}

\* a report that goes on with an empty Trade_History
NeverNoTrades(trades) == FALSE

\* if not trades
NoTrades(trades) == trades = <<>>

\* the result of the run, from the answers of its collaborators:
\*   account  what client.account() does,
\*   db_ok    whether SELECT * FROM Trade_History succeeds,
\*   ticker   what client.ticker_price does, per symbol,
\*   smtp_ok  whether the SMTP submission succeeds
GenerateReport(trades, account, db_ok, ticker, smtp_ok) ==
    LET wallet == GetWalletBalances(account)
    IN  IF wallet.outcome = "raised"
        THEN [outcome |-> "raised", exc |-> wallet.exc, msg |-> wallet.msg,
              email_sent |-> FALSE, send_email_calls |-> 0,
              trades |-> trades]
        ELSE IF ~db_ok
        THEN [outcome |-> "raised", exc |-> "RuntimeError",
              msg |-> "Error fetching database query results.",
              email_sent |-> FALSE, send_email_calls |-> 0,
              trades |-> trades]
        ELSE IF NoTrades(trades)
        THEN [outcome |-> "raised", exc |-> "ValueError",
              msg |-> "No trades found in the database.",
              email_sent |-> FALSE, send_email_calls |-> 0,
              trades |-> trades]
        ELSE LET assets_data == AssetsBalances(trades)
             IN  IF \E s \in DOMAIN assets_data : ticker[s].kind = "ClientError"
                 THEN [outcome |-> "raised", exc |-> "RuntimeError",
                       msg |-> "Binance API error",
                       email_sent |-> FALSE, send_email_calls |-> 0,
              trades |-> trades]
                 ELSE LET prices == [s \in DOMAIN assets_data |-> ticker[s].price]
                          assets_value == CurrentValues(assets_data, prices)
                          computed ==
                              [usdc_balance |-> CalculateUsdcBalance(wallet.value),
                               assets_value |-> assets_value,
                               portfolio_value |-> TotalAndValueChange(assets_value),
                               trades |-> trades]
                      IN  IF smtp_ok
                          THEN [outcome |-> "returned", email_sent |-> TRUE,
                                send_email_calls |-> 1] @@ computed
                          ELSE [outcome |-> "raised", exc |-> "SMTPException",
                                msg |-> "smtp", email_sent |-> FALSE,
                                send_email_calls |-> 1] @@ computed

-----------------------------------------------------------------------------
(* Actions of the portfolio summary job *)

\* AzureDatabaseManager.insert_trade: the rows of the frame are appended to
\* Trade_History; the job calls it with a non-empty frame, before its report
InsertTrade ==
    /\ Len(trade_history) < MaxTrades
    /\ \E trade_data \in SeqsUpTo(TradeRows, MaxTrades - Len(trade_history)) :
          /\ trade_data /= <<>>
          /\ trade_history' = trade_history \o trade_data
    /\ report' = NotCalled
    /\ UNCHANGED <<wallet_call, limits_call, order_call, min_trade_amount, aux_vars>>

\* what the collaborators answer during a run: whether the wallet fetch and
\* the SELECT succeed, the symbols whose price lookup succeeds, and whether
\* the SMTP server takes the message
Answers(account, db_ok, ticker, smtp_ok) ==
    [wallet_ok |-> GetWalletBalances(account).outcome = "returned",
     db_ok |-> db_ok,
     ticker_ok |-> {s \in Symbols : ticker[s].kind /= "ClientError"},
     smtp_ok |-> smtp_ok]

\* the call of generate_and_send_report that ends a run of the job, with the
\* answers its collaborators give during it
GenerateAndSendReport ==
    /\ report = NotCalled
    /\ \E account \in ReportAccountResponses, db_ok \in BOOLEAN,
          ticker \in [Symbols -> TickerResponses], smtp_ok \in BOOLEAN :
            report' = [answers |-> Answers(account, db_ok, ticker, smtp_ok)]
                        @@ GenerateReport(trade_history, account, db_ok, ticker,
                                          smtp_ok)
    /\ UNCHANGED <<trade_history, wallet_call, limits_call, order_call,
                   min_trade_amount, aux_vars>>

\* the next run of the job starts
StartRun ==
    /\ report /= NotCalled
    /\ report' = NotCalled
    /\ UNCHANGED <<trade_history, wallet_call, limits_call, order_call,
                   min_trade_amount, aux_vars>>

MinTradeAmounts == {15, 25}

InitPortfolio ==
    /\ trade_history = <<>>
    /\ report = NotCalled
    /\ wallet_call = NotCalled
    /\ limits_call = NotCalled
    /\ order_call = NotCalled
    /\ min_trade_amount = 15
    /\ AuxIdle

NextPortfolio ==
    \/ InsertTrade
    \/ GenerateAndSendReport
    \/ StartRun

SpecPortfolio == InitPortfolio /\ [][NextPortfolio]_vars

-----------------------------------------------------------------------------
(* Properties of the portfolio valuation *)

\* the run computed the positions (it got as far as the email)
Computed(r) == r.outcome /= "none" /\ "assets_value" \in DOMAIN r

\* the records of a table are Trade records of the data model: side is buy or sell
SidesRecognised(trades) ==
    \A i \in DOMAIN trades : trades[i].is_buyer \in {"True", "False"}

\* the sum of the quantities of the records of symbol s with side is_buyer
QuantityOf(trades, s, is_buyer) ==
    SumColumn(SelectSeq(trades, LAMBDA t : t.symbol = s /\ t.is_buyer = is_buyer),
              "quantity")

SymbolsOf(trades) == {trades[i].symbol : i \in DOMAIN trades}

\* C1: every asset position computed from a table of Trade records has
\* current_quantity = (sum of the quantities of the symbol's buy records)
\* - (sum of the quantities of the symbol's sell records).
C1_CurrentQuantity ==
    (Computed(report) /\ SidesRecognised(report.trades)) =>
        \A s \in DOMAIN report.assets_value :
            report.assets_value[s].current_quantity =
                QuantityOf(report.trades, s, "True") - QuantityOf(report.trades, s, "False")

\* a position was computed for a symbol that was both bought and sold
C1_Witness ==
    /\ Computed(report)
    /\ SidesRecognised(report.trades)
    /\ \E s \in DOMAIN report.assets_value :
          /\ QuantityOf(report.trades, s, "True") > 0
          /\ QuantityOf(report.trades, s, "False") > 0

\* C2: for every position and current price, current_value = current_quantity *
\* current_price, value_change = current_value - total_spend, and
\* value_change_percentage = value_change / total_spend * 100 when total_spend > 0
\* and 0 when total_spend = 0; one buy of quantity 1 for quote 100 at price 150
\* gives current_value 150, value_change 50 and 50 percent.
C2_CurrentValues ==
    Computed(report) =>
        /\ \A s \in DOMAIN report.assets_value :
              LET v == report.assets_value[s]
              IN  /\ v.current_value = v.current_quantity * v.current_price
                  /\ v.value_change = v.current_value - v.total_spend
                  /\ v.total_spend > 0 =>
                        /\ IsFinite(v.value_change_percentage)
                        /\ v.value_change_percentage.n * v.total_spend =
                              v.value_change * 100 * v.value_change_percentage.d
                  /\ v.total_spend = 0 => FloatEq(v.value_change_percentage, 0)
        /\ \A s \in DOMAIN report.assets_value :
              (/\ report.trades = <<[symbol |-> s, quantity |-> 1,
                                     quote_quantity |-> 100, is_buyer |-> "True"]>>
               /\ report.assets_value[s].current_price = 150) =>
                  /\ report.assets_value[s].current_value = 150
                  /\ report.assets_value[s].value_change = 50
                  /\ FloatEq(report.assets_value[s].value_change_percentage, 50)

\* the example of the claim was computed
C2_Witness ==
    /\ Computed(report)
    /\ \E s \in DOMAIN report.assets_value :
          /\ report.trades = <<[symbol |-> s, quantity |-> 1,
                                quote_quantity |-> 100, is_buyer |-> "True"]>>
          /\ report.assets_value[s].current_price = 150
          /\ report.assets_value[s].current_value = 150

\* the run sent its email
Sent(r) == r.outcome = "returned"

\* C3: a symbol whose total bought quantity is 0 is reported with
\* average_price = 0, a finite number.
C3_AveragePriceZero ==
    Sent(report) =>
        \A s \in DOMAIN report.assets_value :
            QuantityOf(report.trades, s, "True") = 0 =>
                FloatEq(report.assets_value[s].average_price, 0)

\* C4: with no trades in Trade_History the report run does not end with an
\* exception of the valuation.
C4_NoTradesNoException ==
    (report.outcome = "raised" /\ report.trades = <<>>) =>
        report.msg /= "No trades found in the database."

\* C5: every symbol that occurs in a trade record has a position in the report.
C5_EverySymbolHasPosition ==
    (Sent(report) /\ SidesRecognised(report.trades)) =>
        \A s \in SymbolsOf(report.trades) : s \in DOMAIN report.assets_value

\* C6: a table with a record whose side is neither buy nor sell yields no
\* report: the record is surfaced as an error.
C6_UnrecognisedSideSurfaced ==
    Sent(report) => SidesRecognised(report.trades)

\* the value of a column for a symbol, 0 when the symbol has no position
ColumnAt(assets_value, s, col) ==
    IF s \in DOMAIN assets_value THEN assets_value[s][col] ELSE 0

\* the sum of a column over the positions of the two symbols
Total(assets_value, col) ==
    ColumnAt(assets_value, "BTCUSDC", col) + ColumnAt(assets_value, "ETHUSDC", col)

\* C20: the portfolio totals are total_spend_sum = sum of total_spend,
\* current_value_sum = sum of current_value, total_value_change =
\* current_value_sum - total_spend_sum = sum of value_change, and
\* value_change_percentage = total_value_change / total_spend_sum * 100 when
\* total_spend_sum > 0, else 0.
C20_PortfolioTotals ==
    Computed(report) =>
        LET totals == report.portfolio_value
            positions == report.assets_value
        IN  /\ totals.total_spend_sum = Total(positions, "total_spend")
            /\ totals.current_value_sum = Total(positions, "current_value")
            /\ totals.total_value_change =
                  totals.current_value_sum - totals.total_spend_sum
            /\ totals.total_value_change = Total(positions, "value_change")
            /\ totals.total_spend_sum > 0 =>
                  /\ IsFinite(totals.value_change_percentage)
                  /\ totals.value_change_percentage.n * totals.total_spend_sum =
                        totals.total_value_change * 100
                            * totals.value_change_percentage.d
            /\ totals.total_spend_sum <= 0 =>
                  FloatEq(totals.value_change_percentage, 0)

\* two positions of 100 spent each were totalled, one that gained 50 and one
\* that lost 50
C20_Witness ==
    /\ Computed(report)
    /\ DOMAIN report.assets_value = {"BTCUSDC", "ETHUSDC"}
    /\ report.assets_value["BTCUSDC"].value_change = 50
    /\ report.portfolio_value.total_spend_sum = 200
    /\ report.portfolio_value.current_value_sum = 200

\* C25: a portfolio report email is sent only after the whole report was
\* computed: send_email is called at most once, and only if the trade
\* history was non-empty and the wallet fetch, the SELECT and every
\* per-symbol price lookup succeeded; with no trades or a failed step no
\* email is sent.
C25_EmailAfterReport ==
    report.outcome /= "none" =>
        LET all_succeeded ==
                /\ report.answers.wallet_ok
                /\ report.answers.db_ok
                /\ report.trades /= <<>>
                /\ DOMAIN AssetsBalances(report.trades) \subseteq report.answers.ticker_ok
        IN  /\ report.send_email_calls \in {0, 1}
            /\ report.send_email_calls = 1 <=> all_succeeded
            /\ report.send_email_calls = 1 => Computed(report)
            /\ report.email_sent => report.send_email_calls = 1
            /\ ~all_succeeded => report.outcome = "raised" /\ ~report.email_sent

\* a report over two positions was computed and sent, and in another run
\* the second price lookup failed
C25_Witness ==
    /\ report.outcome = "returned"
    /\ report.email_sent
    /\ report.send_email_calls = 1
    /\ Cardinality(DOMAIN report.assets_value) = 2

-----------------------------------------------------------------------------
(* BinanceManagerHelper *)

\* validate_trade_limits: both branches return True
ValidateTradeLimits(usdc_amount, minimum) ==
    IF usdc_amount < minimum THEN TRUE ELSE TRUE

HasSufficientFundsAnyRow(amount, balances, asset) ==
    \E i \in DOMAIN balances : balances[i].free >= amount

\* asset_balance.iloc[-1] in place of asset_balance.iloc[0]
HasSufficientFundsLastRow(amount, balances, asset) ==
    LET asset_balance == SelectSeq(balances, LAMBDA r : r.asset = asset)
    IN  IF asset_balance = <<>> THEN FALSE
        ELSE IF asset_balance[Len(asset_balance)].free < amount THEN FALSE
        ELSE TRUE

\* has_sufficient_funds: the free amount of the first row of the asset
HasSufficientFunds(amount, balances, asset) ==
    LET asset_balance == SelectSeq(balances, LAMBDA r : r.asset = asset)
    IN  IF asset_balance = <<>> THEN FALSE
        ELSE IF asset_balance[1].free < amount THEN FALSE
        ELSE TRUE

-----------------------------------------------------------------------------
(* BinanceManager.create_order *)

Sides == {"BUY", "SELL", "HOLD"}
OrderTypes == {"LIMIT", "MARKET"}
Quantities == {Unit, 2 * Unit}

\* the price argument: None, or a float
NoPrice == [is_none |-> TRUE, value |-> 0]
PriceArgs == {NoPrice} \cup {[is_none |-> FALSE, value |-> v] : v \in {0, 2}}

\* the truth value of the argument in "price if price else ...": None and 0.0
\* are false
Truthy(price) == ~price.is_none /\ price.value /= 0

\* symbol.replace("USDC", "")
BaseAsset(symbol) == IF symbol = "BTCUSDC" THEN "BTC" ELSE "ETH"

OrderTickerResponses ==
    {[kind |-> "ClientError", price |-> 0]}
    \cup {[kind |-> "price", price |-> p] : p \in {1, 3}}

NewOrderResponses == {"ok", "ClientError"}

\* the decorator without its "except Exception" clause
WrappedClientErrorOnly(exc) ==
    IF exc = "ClientError"
    THEN Raised("RuntimeError", "Binance API error")
    ELSE Raised(exc, "unwrapped")

\* handle_binance_manager_errors around the body: a ClientError becomes
\* RuntimeError("Binance API error: ..."), any other exception
\* RuntimeError("Unexpected error: ...")
Wrapped(exc) ==
    IF exc = "ClientError"
    THEN Raised("RuntimeError", "Binance API error")
    ELSE Raised("RuntimeError", "Unexpected error")

\* the funds check of create_order, on the frame get_wallet_balances returned
FundsChecked(side, symbol, quantity, usdc_amount, balances) ==
    IF side = "BUY"
    THEN HasSufficientFunds(usdc_amount, balances, "USDC")
    ELSE HasSufficientFunds(quantity, balances, BaseAsset(symbol))

\* the outcome of create_order and the calls it made to the exchange, from its
\* arguments and the answers of the exchange
CreateOrderRun(symbol, side, order_type, quantity, price, ticker, account, new_order) ==
    LET args == [symbol |-> symbol, side |-> side, order_type |-> order_type,
                 quantity |-> quantity, price |-> price,
                 ticker |-> ticker, account |-> account]
        no_calls == [ticker_called |-> FALSE, account_called |-> FALSE,
                     new_order_called |-> FALSE]
        price_call == GetCurrentSymbolPrice(ticker)
        current == IF Truthy(price) THEN price.value ELSE price_call.value
        usdc_amount == quantity * current
        wallet == GetWalletBalances(account)
        after_price == [no_calls EXCEPT !.ticker_called = ~Truthy(price)]
        after_wallet == [after_price EXCEPT !.account_called = TRUE]
    IN  IF side \notin {"BUY", "SELL"}
        THEN Wrapped("ValueError") @@ no_calls @@ args
        ELSE IF ~Truthy(price) /\ price_call.outcome = "raised"
        THEN Wrapped(price_call.exc) @@ after_price @@ args
        ELSE IF wallet.outcome = "raised"
        THEN Wrapped(wallet.exc) @@ after_wallet @@ args
                @@ [usdc_amount |-> usdc_amount]
        ELSE IF ~FundsChecked(side, symbol, quantity, usdc_amount, wallet.value)
        THEN Returned([status |-> "failed", reason |-> "insufficient funds"])
                @@ after_wallet @@ args @@ [usdc_amount |-> usdc_amount]
        ELSE IF ~ValidateTradeLimits(usdc_amount, min_trade_amount)
        THEN Returned([status |-> "failed", reason |-> "trade amount too low"])
                @@ after_wallet @@ args @@ [usdc_amount |-> usdc_amount]
        ELSE IF order_type = "LIMIT" /\ price.is_none
        THEN Wrapped("ValueError") @@ after_wallet @@ args
                @@ [usdc_amount |-> usdc_amount]
        ELSE LET called == [after_wallet EXCEPT !.new_order_called = TRUE]
             IN  IF new_order = "ClientError"
                 THEN Wrapped("ClientError") @@ called @@ args
                         @@ [usdc_amount |-> usdc_amount]
                 ELSE Returned([status |-> "NEW", reason |-> "none"])
                         @@ called @@ args @@ [usdc_amount |-> usdc_amount]

-----------------------------------------------------------------------------
(* Calls of the helper and of get_wallet_balances *)

UsdcAmounts == {0, 5, 14, 15, 16, 24, 25, 26, 40}

GetWalletBalancesCall(response) ==
    /\ wallet_call' = [response |-> response] @@ GetWalletBalances(response)
    /\ UNCHANGED <<trade_history, report, limits_call, order_call, min_trade_amount, aux_vars>>

ValidateTradeLimitsCall(usdc_amount) ==
    /\ limits_call' = [usdc_amount |-> usdc_amount]
                          @@ Returned(ValidateTradeLimits(usdc_amount, min_trade_amount))
    /\ UNCHANGED <<trade_history, report, wallet_call, order_call, min_trade_amount, aux_vars>>

InitHelper ==
    /\ trade_history = <<>>
    /\ report = NotCalled
    /\ wallet_call = NotCalled
    /\ limits_call = NotCalled
    /\ order_call = NotCalled
    /\ min_trade_amount \in MinTradeAmounts
    /\ AuxIdle

NextHelper ==
    \/ \E response \in AccountResponses : GetWalletBalancesCall(response)
    \/ \E usdc_amount \in UsdcAmounts : ValidateTradeLimitsCall(usdc_amount)

SpecHelper == InitHelper /\ [][NextHelper]_vars

-----------------------------------------------------------------------------
(* Calls of has_sufficient_funds *)

\* the frames the helper is given: rows in any order, an asset on any number
\* of rows
FundsFrames == SeqsUpTo(BalanceRows, MaxWallet)

FundsAmounts == {0, 5, Unit, 15, 2 * Unit, 25}

FundsAssets == {"USDC", "BTC", "ETH"}

\* the job: nothing of it is running while the helper is tried alone
JobIdle ==
    /\ trade_history = <<>>
    /\ report = NotCalled
    /\ wallet_call = NotCalled
    /\ limits_call = NotCalled
    /\ order_call = NotCalled
    /\ min_trade_amount = 15

\* every component as constructed, nothing called yet
InitIdle == JobIdle /\ AuxIdle

\* a call of has_sufficient_funds; balances_after is the caller's frame once
\* the call has returned (the helper only reads it)
HasSufficientFundsCall ==
    /\ funds_call = NotCalled
    /\ \E amount \in FundsAmounts, balances \in FundsFrames, asset \in FundsAssets :
          funds_call' = [amount |-> amount, balances |-> balances, asset |-> asset,
                         balances_after |-> balances]
                            @@ Returned(HasSufficientFunds(amount, balances, asset))
    /\ UNCHANGED outside_funds

\* the caller goes on to its next check
NextFundsCheck ==
    /\ funds_call /= NotCalled
    /\ funds_call' = NotCalled
    /\ UNCHANGED outside_funds

NextFunds == HasSufficientFundsCall \/ NextFundsCheck

SpecFunds == InitIdle /\ [][NextFunds]_vars

\* the rows of a frame that are rows of the asset
RowsOf(balances, asset) == {i \in DOMAIN balances : balances[i].asset = asset}

FirstRowOf(balances, asset) ==
    CHOOSE i \in RowsOf(balances, asset) : \A j \in RowsOf(balances, asset) : i <= j

-----------------------------------------------------------------------------
(* DCAConfigLoader *)

UserIds == {"user_1", "user_2"}

\* required_fields, in the order the loop checks them
RequiredFieldsWithoutVault ==
    <<"assets", "amount_usd", "drop_percent", "frequency", "email">>

RequiredFields ==
    <<"assets", "amount_usd", "drop_percent", "frequency", "email", "azure_vault">>

\* the keys a user's record may hold: the required ones and one more
ConfigFields ==
    {"assets", "amount_usd", "drop_percent", "frequency", "email", "azure_vault",
     "email_from"}

\* a user's record: a mapping from the keys it holds to their values
UserConfigs == UNION {[keys -> {"v1", "v2"}] : keys \in SUBSET ConfigFields}

\* the record of user_2 in the configurations tried: complete, or without email
OtherUserConfigs ==
    {[f \in ConfigFields |-> "v1"], [f \in ConfigFields \ {"email"} |-> "v1"]}

\* what yaml.safe_load returns for config.yaml: a mapping from user ids to
\* records
Configs ==
    {<<>>}
    \cup {[u \in {"user_1"} |-> c] : c \in UserConfigs}
    \cup {[u \in {"user_2"} |-> c] : c \in OtherUserConfigs}
    \cup {[u \in UserIds |-> IF u = "user_1" THEN c ELSE d] :
                c \in UserConfigs, d \in OtherUserConfigs}

\* get_user_config
GetUserConfig(cfg, user_id) ==
    IF user_id \notin DOMAIN cfg
    THEN Raised("KeyError", "User not found in config.yaml")
    ELSE LET user_config == cfg[user_id]
             missing == SelectSeq(RequiredFields,
                                  LAMBDA field : field \notin DOMAIN user_config)
         IN  IF missing /= <<>>
             THEN Raised("ValueError", missing[1])
             ELSE Returned(user_config)

\* a call of get_user_config on the loaded configuration
GetUserConfigCall ==
    /\ config_call = NotCalled
    /\ \E user_id \in UserIds :
          config_call' = [user_id |-> user_id] @@ GetUserConfig(config, user_id)
    /\ UNCHANGED <<outside_loader, config>>

\* the entry point ends; the next one loads the same file
NextEntryPoint ==
    /\ config_call /= NotCalled
    /\ config_call' = NotCalled
    /\ UNCHANGED <<outside_loader, config>>

\* DCAConfigLoader.__init__: the configuration is loaded
InitLoader ==
    /\ JobIdle
    /\ config \in Configs
    /\ config_call = NotCalled
    /\ FundsIdle
    /\ SetupIdle
    /\ DbIdle
    /\ SyncIdle
    /\ NormalizerIdle
    /\ NotifierIdle
    /\ StatusIdle
    /\ HistoryIdle
    /\ ExchangeIdle
    /\ EntryIdle
    /\ CancelIdle

NextLoader == GetUserConfigCall \/ NextEntryPoint

SpecLoader == InitLoader /\ [][NextLoader]_vars

\* C13: get_user_config(user_id) raises KeyError when user_id is not in the
\* configuration, raises ValueError when one of assets, amount_usd,
\* drop_percent, frequency, email, azure_vault is missing from the user's
\* record, and otherwise returns the user's record unchanged.
C13_GetUserConfig ==
    config_call.outcome /= "none" =>
        IF config_call.user_id \notin DOMAIN config
        THEN config_call.outcome = "raised" /\ config_call.exc = "KeyError"
        ELSE IF \E f \in {"assets", "amount_usd", "drop_percent", "frequency",
                          "email", "azure_vault"} :
                    f \notin DOMAIN config[config_call.user_id]
        THEN config_call.outcome = "raised" /\ config_call.exc = "ValueError"
        ELSE /\ config_call.outcome = "returned"
             /\ config_call.value = config[config_call.user_id]

\* a record that lacks only azure_vault was refused
C13_Witness ==
    /\ config_call.outcome = "raised"
    /\ config_call.exc = "ValueError"
    /\ DOMAIN config[config_call.user_id] = ConfigFields \ {"azure_vault"}

-----------------------------------------------------------------------------
(* AzureKeyVaultManager.get_secret and the construction of the managers *)

SecretNames ==
    {"binance-api-key", "binance-api-secret",
     "azure-sql-server", "azure-sql-username", "azure-sql-password"}

\* what SecretClient.get_secret does: returns a secret whose value is a string,
\* possibly empty, or raises ResourceNotFoundError or another exception
Lookups ==
    {[kind |-> "secret", value |-> v] : v \in {"", "s3cr3t"}}
    \cup {[kind |-> k, value |-> ""] : k \in {"ResourceNotFoundError", "Exception"}}

\* get_secret without its "except Exception" clause
GetSecretNotFoundOnly(lookup) ==
    IF lookup.kind = "secret" THEN Returned(lookup.value)
    ELSE IF lookup.kind = "ResourceNotFoundError" THEN Returned(None)
    ELSE Raised(lookup.kind, "unhandled")

\* get_secret
GetSecret(lookup) ==
    IF lookup.kind = "secret" THEN Returned(lookup.value)
    ELSE IF lookup.kind = "ResourceNotFoundError" THEN Returned(None)
    ELSE Returned(None)

\* "is not None" in place of the truth value
NotNone(value) == value /= None

\* the truth value of an Optional[str]: None and "" are false
NotEmpty(value) == value /= None /\ value /= ""

BinanceInits == {"ok", "ValueError", "RuntimeError"}

nothing_constructed == [binance_constructed |-> FALSE, database_constructed |-> FALSE]

\* AzureDatabaseManager.__init__ with the answers of the vault; made is what
\* the caller constructed before
DatabaseManagerInit(lookups, db_config_ok, made) ==
    LET server == GetSecret(lookups["azure-sql-server"])
        sql_username == GetSecret(lookups["azure-sql-username"])
        sql_password == GetSecret(lookups["azure-sql-password"])
    IN  IF ~db_config_ok
        THEN Raised("ValueError", "Configuration error: azure_database") @@ made
        ELSE IF server.outcome = "raised" THEN server @@ made
        ELSE IF sql_username.outcome = "raised" THEN sql_username @@ made
        ELSE IF sql_password.outcome = "raised" THEN sql_password @@ made
        ELSE IF ~(/\ NotEmpty(server.value)
                  /\ NotEmpty(sql_username.value)
                  /\ NotEmpty(sql_password.value))
        THEN Raised("ValueError", "Missing database credentials") @@ made
        ELSE Returned("managers") @@ [made EXCEPT !.database_constructed = TRUE]

\* init_managers (with_database) and init_binance (without): the result and
\* what was constructed, from the answers of the vault, the outcome of
\* BinanceManager.__init__ (its configuration check and its exchange_info
\* request) and the presence of the azure_database configuration
InitManagersRun(with_database, lookups, binance_init, db_config_ok) ==
    LET binance_api_key == GetSecret(lookups["binance-api-key"])
        binance_api_secret == GetSecret(lookups["binance-api-secret"])
    IN  IF binance_api_key.outcome = "raised"
        THEN binance_api_key @@ nothing_constructed
        ELSE IF binance_api_secret.outcome = "raised"
        THEN binance_api_secret @@ nothing_constructed
        ELSE IF ~NotEmpty(binance_api_key.value) \/ ~NotEmpty(binance_api_secret.value)
        THEN Raised("ValueError", "Missing Binance API credentials")
                @@ nothing_constructed
        ELSE IF binance_init /= "ok"
        THEN Raised(binance_init, "BinanceManager.__init__") @@ nothing_constructed
        ELSE LET made == [nothing_constructed EXCEPT !.binance_constructed = TRUE]
             IN  IF with_database
                 THEN DatabaseManagerInit(lookups, db_config_ok, made)
                 ELSE Returned("manager") @@ made

SetupOps == {"init_managers", "init_binance", "AzureDatabaseManager"}

SetupRun(op, lookups, binance_init, db_config_ok) ==
    IF op = "AzureDatabaseManager"
    THEN DatabaseManagerInit(lookups, db_config_ok, nothing_constructed)
    ELSE InitManagersRun(op = "init_managers", lookups, binance_init, db_config_ok)

\* a call of get_secret, with what the vault client does during it
GetSecretCall ==
    /\ secret_call = NotCalled
    /\ setup = NotCalled
    /\ \E name \in SecretNames, lookup \in Lookups :
          secret_call' = [name |-> name, lookup |-> lookup] @@ GetSecret(lookup)
    /\ UNCHANGED <<outside_setup, setup>>

\* an entry point constructs its managers
InitManagers ==
    /\ secret_call = NotCalled
    /\ setup = NotCalled
    /\ \E op \in SetupOps, lookups \in [SecretNames -> Lookups],
          binance_init \in BinanceInits, db_config_ok \in BOOLEAN :
            setup' = [op |-> op, lookups |-> lookups, binance_init |-> binance_init,
                      db_config_ok |-> db_config_ok]
                        @@ SetupRun(op, lookups, binance_init, db_config_ok)
    /\ UNCHANGED <<outside_setup, secret_call>>

\* the entry point ends
EndSetup ==
    /\ secret_call /= NotCalled \/ setup /= NotCalled
    /\ secret_call' = NotCalled
    /\ setup' = NotCalled
    /\ UNCHANGED outside_setup

NextSetup == GetSecretCall \/ InitManagers \/ EndSetup

SpecSetup == InitIdle /\ [][NextSetup]_vars

Absent(lookup) == lookup.kind /= "secret" \/ lookup.value = ""

BinanceSecrets == {"binance-api-key", "binance-api-secret"}
DatabaseSecrets == {"azure-sql-server", "azure-sql-username", "azure-sql-password"}

\* C15: init_managers and init_binance raise ValueError and construct no
\* BinanceManager when binance-api-key or binance-api-secret is missing or
\* empty; the construction of AzureDatabaseManager raises ValueError when one
\* of azure-sql-server, azure-sql-username, azure-sql-password is missing or
\* empty; a manager exists only with all of its credentials.
C15_MissingCredentialFatal ==
    setup.outcome /= "none" =>
        /\ (/\ setup.op \in {"init_managers", "init_binance"}
            /\ \E n \in BinanceSecrets : Absent(setup.lookups[n])) =>
              /\ setup.outcome = "raised"
              /\ setup.exc = "ValueError"
              /\ ~setup.binance_constructed
              /\ ~setup.database_constructed
        /\ (/\ setup.op = "AzureDatabaseManager" \/ setup.binance_constructed
            /\ setup.op /= "init_binance"
            /\ \E n \in DatabaseSecrets : Absent(setup.lookups[n])) =>
              /\ setup.outcome = "raised"
              /\ setup.exc = "ValueError"
              /\ ~setup.database_constructed
        /\ setup.binance_constructed =>
              \A n \in BinanceSecrets : ~Absent(setup.lookups[n])
        /\ setup.database_constructed =>
              \A n \in DatabaseSecrets : ~Absent(setup.lookups[n])

\* init_managers found binance-api-secret empty and constructed nothing
C15_Witness ==
    /\ setup.outcome = "raised"
    /\ setup.op = "init_managers"
    /\ setup.lookups["binance-api-key"] = [kind |-> "secret", value |-> "s3cr3t"]
    /\ setup.lookups["binance-api-secret"] = [kind |-> "secret", value |-> ""]
    /\ ~setup.binance_constructed

-----------------------------------------------------------------------------
(* AzureDatabaseManager *)

\* what the database does during a query: nothing wrong, or a pyodbc Error
\* at connect, at execute / executemany, or at commit
QueryFaults == {"none", "connect", "execute", "commit"}
FetchFaults == {"none", "connect", "execute"}

\* _execute_query with conn.commit() moved to the finally clause
ExecuteQueryCommitInFinally(fault) ==
    IF fault = "connect"
    THEN Raised("ConnectionError", "Failed to connect to the Azure SQL database.")
            @@ [executed |-> FALSE, commit_calls |-> 0, committed |-> FALSE,
                success_logged |-> TRUE]
    ELSE IF fault = "execute"
    THEN Raised("RuntimeError", "Error executing database query.")
            @@ [executed |-> FALSE, commit_calls |-> 1, committed |-> FALSE,
                success_logged |-> TRUE]
    ELSE IF fault = "commit"
    THEN Raised("RuntimeError", "Error executing database query.")
            @@ [executed |-> TRUE, commit_calls |-> 1, committed |-> FALSE,
                success_logged |-> TRUE]
    ELSE Returned(None)
            @@ [executed |-> TRUE, commit_calls |-> 1, committed |-> TRUE,
                success_logged |-> TRUE]

\* _connect and _execute_query: the outcome of the call, whether execute /
\* executemany returned, how often conn.commit() was called, whether the
\* transaction was committed and whether "Query executed successfully on
\* table: ..." was logged, which the finally clause does on every path
ExecuteQuery(fault) ==
    IF fault = "connect"
    \* _connect raises ConnectionError, which "except Error" does not catch
    THEN Raised("ConnectionError", "Failed to connect to the Azure SQL database.")
            @@ [executed |-> FALSE, commit_calls |-> 0, committed |-> FALSE,
                success_logged |-> TRUE]
    ELSE IF fault = "execute"
    THEN Raised("RuntimeError", "Error executing database query.")
            @@ [executed |-> FALSE, commit_calls |-> 0, committed |-> FALSE,
                success_logged |-> TRUE]
    ELSE IF fault = "commit"
    THEN Raised("RuntimeError", "Error executing database query.")
            @@ [executed |-> TRUE, commit_calls |-> 1, committed |-> FALSE,
                success_logged |-> TRUE]
    ELSE Returned(None)
            @@ [executed |-> TRUE, commit_calls |-> 1, committed |-> TRUE,
                success_logged |-> TRUE]

\* _fetch_query: the rows of the table, or the error
FetchQuery(fault, rows) ==
    IF fault = "connect"
    THEN Raised("ConnectionError", "Failed to connect to the Azure SQL database.")
    ELSE IF fault = "execute"
    THEN Raised("RuntimeError", "Error fetching database query results.")
    ELSE Returned(rows)

\* the readings of datetime.now() and the times of the trades, in days
Nows == {365, 500}

\* the rows of a trade frame given to insert_trade
DbTradeRows ==
    {[order_id |-> t[1], symbol |-> "BTCUSDC", quantity |-> 1,
      quote_quantity |-> 100, is_buyer |-> "True", timestamp |-> t[2]] :
        t \in {<<1, 100>>, <<2, 400>>}}

MarketRows == {[symbol |-> "btc", market_cap_rank |-> 1]}

PortfolioBalanceRows(now) ==
    {[asset |-> "USDC", free |-> Unit, locked |-> 0, timestamp |-> now]}

\* the rows insert_daily_high_price builds from high_price_data at time now
DailyHighPriceRows(assets, prices, now) ==
    {[asset |-> a, high_price |-> p, timestamp |-> now] : a \in assets, p \in prices}

TableNames ==
    {"Trade_History", "Market_Capitalization_History", "Portfolio_Balance",
     "Daily_High_Price"}

\* the batches of rows an insert may be given when the table holds n rows
Batches(rows, n) == SeqsUpTo(rows, MaxRows - n) \ {<<>>}

\* the rows of a table
RowsOfTable(table_name) ==
    IF table_name = "Trade_History" THEN trade_history ELSE tables[table_name]

\* the call record of a modifying operation
Modification(op, fault) ==
    [op |-> op, fault |-> fault, trades_before |-> trade_history]
        @@ ExecuteQuery(fault)

\* datetime.now() - timedelta(days=30)
OneMonthAgo(now) == now - 30

\* datetime.now() - timedelta(days=365)
OneYearAgo(now) == now - 365

insert_trade ==
    /\ db_call = NotCalled
    /\ Len(trade_history) < MaxRows
    /\ \E trade_data \in Batches(DbTradeRows, Len(trade_history)),
          fault \in QueryFaults :
            /\ db_call' = Modification("insert_trade", fault)
            /\ trade_history' = IF db_call'.committed
                                 THEN trade_history \o trade_data
                                 ELSE trade_history
    /\ UNCHANGED <<outside_db, tables>>

insert_market_history ==
    /\ db_call = NotCalled
    /\ Len(tables.Market_Capitalization_History) < MaxRows
    /\ \E market_data_list \in
              Batches(MarketRows, Len(tables.Market_Capitalization_History)),
          fault \in QueryFaults :
            /\ db_call' = Modification("insert_market_history", fault)
            /\ tables' = IF db_call'.committed
                          THEN [tables EXCEPT !.Market_Capitalization_History =
                                                  @ \o market_data_list]
                          ELSE tables
    /\ UNCHANGED <<outside_db, trade_history>>

insert_portfolio_balance ==
    /\ db_call = NotCalled
    /\ Len(tables.Portfolio_Balance) < MaxRows
    /\ \E now \in Nows, fault \in QueryFaults :
          \E balance_data \in
                Batches(PortfolioBalanceRows(now), Len(tables.Portfolio_Balance)) :
            /\ db_call' = Modification("insert_portfolio_balance", fault)
            /\ tables' = IF db_call'.committed
                          THEN [tables EXCEPT !.Portfolio_Balance = @ \o balance_data]
                          ELSE tables
    /\ UNCHANGED <<outside_db, trade_history>>

\* insert_daily_high_price with high_price_data over the assets and prices
InsertDailyHighPrice(assets, prices) ==
    /\ db_call = NotCalled
    /\ Len(tables.Daily_High_Price) < MaxRows
    /\ \E now \in Nows, fault \in QueryFaults :
          \E high_price_data \in
                Batches(DailyHighPriceRows(assets, prices, now),
                        Len(tables.Daily_High_Price)) :
            /\ db_call' = Modification("insert_daily_high_price", fault)
            /\ tables' = IF db_call'.committed
                          THEN [tables EXCEPT !.Daily_High_Price = @ \o high_price_data]
                          ELSE tables
    /\ UNCHANGED <<outside_db, trade_history>>

insert_daily_high_price == InsertDailyHighPrice({"BTC"}, {1})

\* DELETE FROM Trade_History WHERE timestamp < one_year_ago
delete_old_trades ==
    /\ db_call = NotCalled
    /\ \E now \in Nows, fault \in QueryFaults :
          LET one_year_ago == OneYearAgo(now)
          IN  /\ db_call' = [now |-> now] @@ Modification("delete_old_trades", fault)
              /\ trade_history' =
                    IF db_call'.committed
                    THEN SelectSeq(trade_history,
                                   LAMBDA row : ~(row.timestamp < one_year_ago))
                    ELSE trade_history
    /\ UNCHANGED <<outside_db, tables>>

\* SELECT * FROM table_name
get_values_from_table ==
    /\ db_call = NotCalled
    /\ \E table_name \in TableNames, fault \in FetchFaults :
          db_call' = [op |-> "get_values_from_table", table_name |-> table_name,
                      fault |-> fault, trades_before |-> trade_history]
                        @@ FetchQuery(fault, RowsOfTable(table_name))
    /\ UNCHANGED <<outside_db, trade_history, tables>>

\* the caller goes on to its next operation
NextOperation ==
    /\ db_call /= NotCalled
    /\ db_call' = NotCalled
    /\ UNCHANGED <<outside_db, trade_history, tables>>

NextDatabase ==
    \/ insert_trade
    \/ insert_market_history
    \/ insert_portfolio_balance
    \/ insert_daily_high_price
    \/ delete_old_trades
    \/ get_values_from_table
    \/ NextOperation

SpecDatabase == InitIdle /\ [][NextDatabase]_vars

\* the operation ran a modifying query
Modifying(call) == call.outcome /= "none" /\ call.op /= "get_values_from_table"

\* C16: when execute / executemany fails with a database error,
\* _execute_query raises RuntimeError and commit is not called; commit is called
\* at most once, only after execute / executemany returned without error, and
\* exactly once in a query that succeeds; a query that fails leaves the tables
\* as they were.
C16_NoCommitOnFailure ==
    Modifying(db_call) =>
        /\ db_call.fault = "execute" =>
              /\ db_call.outcome = "raised"
              /\ db_call.exc = "RuntimeError"
              /\ db_call.commit_calls = 0
        /\ db_call.commit_calls \in {0, 1}
        /\ db_call.commit_calls = 1 => db_call.fault \in {"none", "commit"}
        /\ db_call.outcome = "returned" => db_call.commit_calls = 1
        /\ db_call.outcome = "raised" => trade_history = db_call.trades_before

\* an insert into a table that holds a row failed at executemany
C16_Witness ==
    /\ Modifying(db_call)
    /\ db_call.op = "insert_trade"
    /\ db_call.fault = "execute"
    /\ db_call.outcome = "raised"
    /\ Len(trade_history) = 1

\* C30: _execute_query logs "Query executed successfully on table" only for a
\* query that was executed and committed; a query that failed, at the
\* connection or in the database, never produces that log entry.
C30_SuccessLogOnlyOnSuccess ==
    Modifying(db_call) =>
        /\ db_call.success_logged => db_call.executed /\ db_call.committed
        /\ db_call.outcome = "raised" => ~db_call.success_logged

\* the rows before the operation are the first rows after it
StillPresent(before, after) ==
    /\ Len(before) <= Len(after)
    /\ \A i \in DOMAIN before : after[i] = before[i]

\* the positions of the rows that are not older than 365 days at time now
RecentAt(rows, now) == {i \in DOMAIN rows : rows[i].timestamp >= now - 365}

KthRecent(rows, now, k) ==
    CHOOSE i \in RecentAt(rows, now) :
        Cardinality({j \in RecentAt(rows, now) : j <= i}) = k

\* C19 (as stated): after any operation of AzureDatabaseManager, every trade
\* row that was recorded is still present and unchanged.
C19_AppendOnly ==
    db_call.outcome /= "none" => StillPresent(db_call.trades_before, trade_history)

\* C19 (amended): no operation changes a stored trade row; every operation
\* other than delete_old_trades keeps every recorded row; a delete_old_trades
\* that succeeds removes exactly the rows whose timestamp is more than 365 days
\* before the time of the call and keeps the others, in order.
C19_AppendOnlyButOld ==
    db_call.outcome /= "none" =>
        IF db_call.op = "delete_old_trades" /\ db_call.outcome = "returned"
        THEN /\ Len(trade_history) =
                    Cardinality(RecentAt(db_call.trades_before, db_call.now))
             /\ \A k \in DOMAIN trade_history :
                    trade_history[k] =
                        db_call.trades_before[
                            KthRecent(db_call.trades_before, db_call.now, k)]
        ELSE StillPresent(db_call.trades_before, trade_history)

\* delete_old_trades removed an old trade and kept a recent one
C19_Witness ==
    /\ db_call.outcome = "returned"
    /\ db_call.op = "delete_old_trades"
    /\ Len(db_call.trades_before) = 2
    /\ Len(trade_history) = 1

-----------------------------------------------------------------------------
(* get_saved_high_price_from_azure_sql over Daily_High_Price *)

HighPriceAssets == {"BTC", "ETH"}
HighPrices == {1, 2}

\* the row of the first position
FirstOf(positions) == CHOOSE i \in positions : \A j \in positions : i <= j

LastOf(positions) == CHOOSE i \in positions : \A j \in positions : j <= i

\* the positions of the rows of the asset: asset[1] == asset_name
RowsOfAsset(rows, asset_name) == {i \in DOMAIN rows : rows[i].asset = asset_name}

\* get_saved_high_price_from_azure_sql: the loop over the rows of
\* SELECT * FROM Daily_High_Price, which the table returns in the order of
\* its key, the order of insertion, returns at the first row of the asset
GetSavedHighPrice(fault, rows, asset_name) ==
    LET assets_high_prices == FetchQuery(fault, rows)
    IN  IF assets_high_prices.outcome = "raised" THEN assets_high_prices
        ELSE IF RowsOfAsset(rows, asset_name) = {}
        THEN Returned([is_none |-> TRUE])
        ELSE LET asset == rows[FirstOf(RowsOfAsset(rows, asset_name))]
             IN  Returned([is_none |-> FALSE,
                           asset_high_price |-> asset.high_price,
                           asset_high_price_date |-> asset.timestamp])

\* the strategy saves the high prices of its assets
save_daily_high_price == InsertDailyHighPrice(HighPriceAssets, HighPrices)

get_saved_high_price_from_azure_sql ==
    /\ db_call = NotCalled
    /\ \E asset_name \in HighPriceAssets, fault \in FetchFaults :
          db_call' = [op |-> "get_saved_high_price_from_azure_sql",
                      asset_name |-> asset_name, fault |-> fault,
                      trades_before |-> trade_history]
                        @@ GetSavedHighPrice(fault, tables.Daily_High_Price,
                                             asset_name)
    /\ UNCHANGED <<outside_db, trade_history, tables>>

NextHighPrice ==
    \/ save_daily_high_price
    \/ get_saved_high_price_from_azure_sql
    \/ NextOperation

SpecHighPrice == InitIdle /\ [][NextHighPrice]_vars

\* a lookup of the saved high price whose SELECT succeeded
LookedUp(call) ==
    /\ call.outcome /= "none"
    /\ call.op = "get_saved_high_price_from_azure_sql"
    /\ call.fault = "none"

\* C24: after any sequence of insert_daily_high_price calls,
\* get_saved_high_price_from_azure_sql(asset_name) returns the high price and
\* date of the last saved Daily_High_Price row of the asset, and None if and
\* only if no row of the asset was ever saved.
C24_LastSavedHighPrice ==
    LookedUp(db_call) =>
        LET saved == RowsOfAsset(tables.Daily_High_Price, db_call.asset_name)
        IN  /\ db_call.outcome = "returned"
            /\ db_call.value.is_none <=> saved = {}
            /\ saved /= {} =>
                  LET last == tables.Daily_High_Price[LastOf(saved)]
                  IN  /\ db_call.value.asset_high_price = last.high_price
                      /\ db_call.value.asset_high_price_date = last.timestamp

-----------------------------------------------------------------------------
(* The database sync workflow: examples/azure_database_sync_with_binance.py *)

\* stop_after_attempt(2)
MaxAttempts == 2

\* the retried inserts, in the order main calls them
Inserts == <<"insert_portfolio_balance", "insert_market_history", "insert_trade">>

InsertNames == {Inserts[i] : i \in DOMAIN Inserts}

\* what main does after an insert returned
AfterInsert(name) ==
    IF name = "insert_portfolio_balance" THEN "insert_market_history"
    ELSE IF name = "insert_market_history" THEN "insert_trade"
    ELSE "done"

\* a stop condition that lets one more attempt through
StopAfterAttemptExclusive(attempt_number) == attempt_number > MaxAttempts

\* tenacity's stop_after_attempt: no further attempt once attempt_number
\* reaches the maximum
StopAfterAttempt(attempt_number) == attempt_number >= MaxAttempts

\* the data main fetched from the exchange, as the rows the inserts write
SyncRows(name) ==
    IF name = "insert_portfolio_balance"
    THEN <<[asset |-> "USDC", free |-> Unit, locked |-> 0, timestamp |-> 500]>>
    ELSE IF name = "insert_market_history"
    THEN <<[symbol |-> "btc", market_cap_rank |-> 1]>>
    ELSE <<[order_id |-> 2, symbol |-> "BTCUSDC", quantity |-> 1,
            quote_quantity |-> 100, is_buyer |-> "True", timestamp |-> 400]>>

SyncTable(name) ==
    IF name = "insert_portfolio_balance" THEN "Portfolio_Balance"
    ELSE "Market_Capitalization_History"

\* main starts
StartSync ==
    /\ sync = NotCalled
    /\ Len(trade_history) < MaxRows
    /\ Len(tables.Portfolio_Balance) < MaxRows
    /\ Len(tables.Market_Capitalization_History) < MaxRows
    /\ sync' = [pc |-> "fetch", log |-> [name \in InsertNames |-> <<>>],
                error |-> "none"]
    /\ UNCHANGED <<outside_sync, trade_history, db_vars>>

\* load_credentials, init_managers, get_wallet_balances,
\* fetch_biggest_crypto_data, get_trade_history_last_24h: all return, or one
\* raises and main prints the error
FetchData ==
    /\ sync /= NotCalled
    /\ sync.pc = "fetch"
    /\ \E ok \in BOOLEAN :
          sync' = IF ok
                  THEN [sync EXCEPT !.pc = Inserts[1]]
                  ELSE [sync EXCEPT !.pc = "error", !.error = "Exception"]
    /\ UNCHANGED <<outside_sync, trade_history, db_vars>>

\* one attempt of the current insert under RETRY_POLICY: the insert returns
\* and main goes on, or it raises and tenacity either retries after the wait
\* or raises RetryError, which main prints
Attempt ==
    /\ sync /= NotCalled
    /\ sync.pc \in InsertNames
    /\ \E fault \in QueryFaults :
          LET name == sync.pc
              attempt_number == Len(sync.log[name]) + 1
              query == ExecuteQuery(fault)
              log == [sync.log EXCEPT ![name] = Append(@, fault)]
          IN  /\ sync' =
                    IF query.outcome = "returned"
                    THEN [sync EXCEPT !.log = log, !.pc = AfterInsert(name)]
                    ELSE IF StopAfterAttempt(attempt_number)
                    THEN [sync EXCEPT !.log = log, !.pc = "error",
                                      !.error = "RetryError"]
                    ELSE [sync EXCEPT !.log = log]
              /\ trade_history' =
                    IF query.committed /\ name = "insert_trade"
                    THEN trade_history \o SyncRows(name)
                    ELSE trade_history
              /\ tables' =
                    IF query.committed /\ name /= "insert_trade"
                    THEN [tables EXCEPT ![SyncTable(name)] = @ \o SyncRows(name)]
                    ELSE tables
    /\ UNCHANGED <<outside_sync, db_call>>

\* main returns
EndSync ==
    /\ sync /= NotCalled
    /\ sync.pc \in {"done", "error"}
    /\ sync' = NotCalled
    /\ UNCHANGED <<outside_sync, trade_history, db_vars>>

NextSync == StartSync \/ FetchData \/ Attempt \/ EndSync

SpecSync == InitIdle /\ [][NextSync]_vars

\* C17: each retried insert is attempted at most 2 times; an attempt after
\* the first is made only after a failed one, so a success ends the attempts;
\* after a second failure the failure is surfaced and nothing more is
\* attempted.
C17_AtMostTwoAttempts ==
    sync /= NotCalled =>
        \A i \in DOMAIN Inserts :
            LET attempts == sync.log[Inserts[i]]
            IN  /\ Len(attempts) <= 2
                /\ \A k \in 1 .. (Len(attempts) - 1) : attempts[k] /= "none"
                /\ (Len(attempts) = 2 /\ attempts[2] /= "none") =>
                      /\ sync.pc = "error"
                      /\ sync.error = "RetryError"
                      /\ \A j \in DOMAIN Inserts : j > i => sync.log[Inserts[j]] = <<>>
                /\ (attempts /= <<>> /\ attempts[Len(attempts)] = "none") =>
                      sync.pc /= Inserts[i]

\* the second insert failed once and succeeded on its second attempt, and the
\* third failed twice
C17_Witness ==
    /\ sync /= NotCalled
    /\ sync.log["insert_market_history"] = <<"execute", "none">>
    /\ Len(sync.log["insert_trade"]) = 2
    /\ sync.pc = "error"

-----------------------------------------------------------------------------
(* The normalizers: BinanceManager.fetch_symbol_trade_history and
   CoinGeckoMarketData._clean_market_data *)

\* the keys fetch_symbol_trade_history reads from a trade, in the order it
\* reads them
TradeFields ==
    <<"symbol", "orderId", "price", "qty", "quoteQty", "commission",
      "commissionAsset", "time", "isBuyer">>

\* the keys it converts with float() or int()
ConvertedTradeFields == {"price", "qty", "quoteQty", "commission", "time"}

\* columns of _clean_market_data
Columns ==
    <<"id", "last_updated", "market_cap", "name", "symbol", "market_cap_rank",
      "current_price", "high_24h", "low_24h">>

Range(q) == {q[i] : i \in DOMAIN q}

\* the records of a response: every key of the list and one the normalizer
\* does not read, each with a value; or one key of the list absent, or present
\* with null
RawRecords(fields, extra) ==
    {[f \in Range(fields) \cup {extra} |-> "v"]}
    \cup {[f \in (Range(fields) \cup {extra}) \ {g} |-> "v"] : g \in Range(fields)}
    \cup {[f \in Range(fields) \cup {extra} |-> IF f = g THEN None ELSE "v"] :
              g \in Range(fields)}

\* what client.my_trades returns, or its ClientError
TradeResponses ==
    {[kind |-> "ClientError", trades |-> <<>>]}
    \cup {[kind |-> "list", trades |-> t] :
              t \in SeqsUpTo(RawRecords(TradeFields, "isMaker"), MaxRecords)}

\* what the pages of the market API hold together
MarketData == SeqsUpTo(RawRecords(Columns, "roi"), MaxRecords)

\* float(value), and datetime.fromtimestamp(int(value) / 1000, tz=timezone.utc)
\* for time, of a value that is not null; the other keys are copied
Converted(f, value) ==
    IF f = "time" THEN "datetime(v)"
    ELSE IF f \in ConvertedTradeFields THEN "float(v)"
    ELSE value

\* the dict built from one trade: trade[key] raises KeyError for an absent
\* key, float(None) and int(None) raise TypeError
NormalizeTrade(trade) ==
    LET bad == SelectSeq(TradeFields,
                         LAMBDA f : \/ f \notin DOMAIN trade
                                    \/ f \in ConvertedTradeFields /\ trade[f] = None)
    IN  IF bad = <<>>
        THEN Returned([f \in Range(TradeFields) |-> Converted(f, trade[f])])
        ELSE IF bad[1] \notin DOMAIN trade THEN Raised("KeyError", bad[1])
        ELSE Raised("TypeError", bad[1])

\* the first position of a sequence of outcomes that is an exception, 0 if none
FirstRaised(results) ==
    IF \A i \in DOMAIN results : results[i].outcome /= "raised" THEN 0
    ELSE CHOOSE i \in DOMAIN results :
            /\ results[i].outcome = "raised"
            /\ \A j \in DOMAIN results : results[j].outcome = "raised" => i <= j

\* fetch_symbol_trade_history: None when the exchange returns no trades
FetchSymbolTradeHistory(response) ==
    IF response.kind = "ClientError"
    THEN [is_none |-> FALSE] @@ Wrapped("ClientError")
    ELSE IF response.trades = <<>>
    THEN [is_none |-> TRUE] @@ Returned(<<>>)
    ELSE LET results == [i \in DOMAIN response.trades |->
                            NormalizeTrade(response.trades[i])]
             failed == FirstRaised(results)
         IN  IF failed /= 0
             THEN [is_none |-> FALSE] @@ Wrapped(results[failed].exc)
             ELSE [is_none |-> FALSE]
                     @@ Returned([i \in DOMAIN results |-> results[i].value])

\* _clean_market_data reading the columns of every record with dict.get
CleanMarketDataFirstRecordOnly(data) ==
    IF data = <<>>
    THEN Raised("IndexError", "list index out of range")
    ELSE IF \E i \in DOMAIN Columns : Columns[i] \notin DOMAIN data[1]
    THEN Raised("ValueError", "")
    ELSE Returned([i \in DOMAIN data |->
                      [col \in Range(Columns) |->
                          IF col \in DOMAIN data[i] THEN data[i][col] ELSE None]])

\* _clean_market_data: the missing-column check looks at data[0]; crypto[col]
\* raises KeyError for a later record without the column
CleanMarketData(data) ==
    IF data = <<>>
    THEN Raised("IndexError", "list index out of range")
    ELSE IF \E i \in DOMAIN Columns : Columns[i] \notin DOMAIN data[1]
    THEN Raised("ValueError", "")
    ELSE IF \E i \in DOMAIN data : \E col \in Range(Columns) : col \notin DOMAIN data[i]
    THEN Raised("KeyError", "column")
    ELSE Returned([i \in DOMAIN data |-> [col \in Range(Columns) |-> data[i][col]]])

\* a call of fetch_symbol_trade_history, with the answer of the exchange
FetchSymbolTradeHistoryCall ==
    /\ normalize_call = NotCalled
    /\ \E response \in TradeResponses :
          normalize_call' =
              [op |-> "fetch_symbol_trade_history", fields |-> Range(TradeFields),
               failed |-> response.kind = "ClientError", records |-> response.trades]
                  @@ FetchSymbolTradeHistory(response)
    /\ UNCHANGED outside_normalizer

\* a call of _clean_market_data on the fetched pages
CleanMarketDataCall ==
    /\ normalize_call = NotCalled
    /\ \E data \in MarketData :
          normalize_call' =
              [op |-> "_clean_market_data", fields |-> Range(Columns),
               failed |-> FALSE, records |-> data]
                  @@ CleanMarketData(data)
    /\ UNCHANGED outside_normalizer

\* the caller goes on
NextNormalize ==
    /\ normalize_call /= NotCalled
    /\ normalize_call' = NotCalled
    /\ UNCHANGED outside_normalizer

NextNormalizer == FetchSymbolTradeHistoryCall \/ CleanMarketDataCall \/ NextNormalize

SpecNormalizer == InitIdle /\ [][NextNormalizer]_vars

\* a record of the response lacks one of the fields
SomeRecordLacks(call) ==
    \E i \in DOMAIN call.records : \E f \in call.fields : f \notin DOMAIN call.records[i]

\* C18 (as stated): if a record of the response lacks one of the fields, the
\* call ends in an error and returns no records; no record with a null or
\* absent field is returned, so none can reach insert_trade or
\* insert_market_history.
C18_NoNullOrAbsentField ==
    normalize_call.outcome /= "none" =>
        /\ SomeRecordLacks(normalize_call) => normalize_call.outcome = "raised"
        /\ normalize_call.outcome = "returned" =>
              \A k \in DOMAIN normalize_call.value : \A f \in normalize_call.fields :
                  /\ f \in DOMAIN normalize_call.value[k]
                  /\ normalize_call.value[k][f] /= None

\* C18 (amended): if a record of the response lacks one of the fields, the
\* call ends in an error and returns no records; every record returned holds
\* exactly the fields of the list: price, qty, quoteQty and commission of a
\* trade as floats and its time as a UTC instant, never null, and every other
\* field with the value the response gave, null included.
C18_NoAbsentField ==
    normalize_call.outcome /= "none" =>
        /\ SomeRecordLacks(normalize_call) => normalize_call.outcome = "raised"
        /\ normalize_call.outcome = "returned" =>
              /\ Len(normalize_call.value) = Len(normalize_call.records)
              /\ \A k \in DOMAIN normalize_call.value :
                    /\ DOMAIN normalize_call.value[k] = normalize_call.fields
                    /\ \A f \in normalize_call.fields :
                          IF normalize_call.op = "_clean_market_data"
                             \/ f \in {"symbol", "orderId", "commissionAsset", "isBuyer"}
                          THEN normalize_call.value[k][f] = normalize_call.records[k][f]
                          ELSE /\ normalize_call.records[k][f] = "v"
                               /\ normalize_call.value[k][f] =
                                     (IF f = "time" THEN "datetime(v)" ELSE "float(v)")

\* the second record of the market data lacks high_24h, the first is
\* complete, and the call ended in an error
C18_Witness ==
    /\ normalize_call.outcome = "raised"
    /\ normalize_call.op = "_clean_market_data"
    /\ Len(normalize_call.records) = 2
    /\ ~(\E f \in normalize_call.fields : f \notin DOMAIN normalize_call.records[1])
    /\ "high_24h" \notin DOMAIN normalize_call.records[2]

-----------------------------------------------------------------------------
(* WalletBalanceNotifier.check_and_notify *)

\* usd_required: sum(amount_usd.values()) * usd_for_x_months
UsdRequired == {0, Unit, 2 * Unit, 3 * Unit, 4 * Unit}

BelowOrEqualRequired(usdc_total, usd_required) == usdc_total <= usd_required

\* float(usdc_total) < usd_required
BelowRequired(usdc_total, usd_required) == usdc_total < usd_required

\* the result of check_and_notify from the answers of its collaborators;
\* send_email_calls counts the calls of send_email, delivered the messages
\* the SMTP server took
CheckAndNotify(account, usd_required, smtp_ok) ==
    LET wallet == GetWalletBalances(account)
    IN  IF wallet.outcome = "raised"
        THEN Raised(wallet.exc, wallet.msg)
                @@ [send_email_calls |-> 0, delivered |-> 0]
        ELSE LET usdc_total == CalculateUsdcBalance(wallet.value)
             IN  IF BelowRequired(usdc_total, usd_required)
                 THEN IF smtp_ok
                      THEN Returned(None) @@ [send_email_calls |-> 1, delivered |-> 1]
                      ELSE Raised("SMTPException", "smtp")
                              @@ [send_email_calls |-> 1, delivered |-> 0]
                 ELSE Returned(None) @@ [send_email_calls |-> 0, delivered |-> 0]

\* notify_low_balance.main reaches its call of check_and_notify
CheckAndNotifyCall ==
    /\ notify_call = NotCalled
    /\ \E account \in AccountResponses, usd_required \in UsdRequired,
          smtp_ok \in BOOLEAN :
            notify_call' = [account |-> account, usd_required |-> usd_required,
                            smtp_ok |-> smtp_ok]
                              @@ CheckAndNotify(account, usd_required, smtp_ok)
    /\ UNCHANGED outside_notifier

\* the next run of the job
NextNotifyRun ==
    /\ notify_call /= NotCalled
    /\ notify_call' = NotCalled
    /\ UNCHANGED outside_notifier

NextNotifier == CheckAndNotifyCall \/ NextNotifyRun

SpecNotifier == InitIdle /\ [][NextNotifier]_vars

\* the wallet's USDC total: free + locked of the USDC entry, 0 when the
\* wallet has no non-zero USDC entry
UsdcTotal(account) ==
    LET held == {i \in DOMAIN account.balances :
                    /\ account.balances[i].asset = "USDC"
                    /\ (account.balances[i].free /= 0
                        \/ account.balances[i].locked /= 0)}
    IN  IF held = {} THEN 0
        ELSE LET i == CHOOSE i \in held : TRUE
             IN  account.balances[i].free + account.balances[i].locked

WalletFetched(call) ==
    /\ call.outcome /= "none"
    /\ call.account.kind = "dict"
    /\ call.account.has_balances

\* C21: check_and_notify sends exactly one low-balance email if the wallet's
\* USDC total is strictly below usd_required, and none when the total is
\* >= usd_required (one call of send_email, which the SMTP server takes
\* when it answers).
C21_LowBalanceEmail ==
    WalletFetched(notify_call) =>
        /\ UsdcTotal(notify_call.account) < notify_call.usd_required
              => /\ notify_call.send_email_calls = 1
                 /\ notify_call.smtp_ok => notify_call.delivered = 1
        /\ UsdcTotal(notify_call.account) >= notify_call.usd_required
              => /\ notify_call.send_email_calls = 0
                 /\ notify_call.delivered = 0
                 /\ notify_call.outcome = "returned"

\* the wallet holds free and locked USDC, one step below the requirement,
\* and the alert was sent
C21_Witness ==
    /\ WalletFetched(notify_call)
    /\ UsdcTotal(notify_call.account) = 3 * Unit
    /\ notify_call.usd_required = 4 * Unit
    /\ notify_call.send_email_calls = 1
    /\ notify_call.delivered = 1

-----------------------------------------------------------------------------
(* BinanceManager.check_market_status and
   BinanceManagerHelper.get_binance_coin_symbols *)

\* str.lower() on the names of the model
Lower(name) ==
    CASE name \in {"BTC", "Btc", "btc"} -> "btc"
      [] name \in {"ETH", "eth"} -> "eth"
      [] name \in {"XRP", "xrp"} -> "xrp"

BaseAssets == {"BTC", "ETH"}
QuoteAssets == {"USDC", "USDT"}
SymbolNames == {"BTC", "Btc", "btc", "ETH", "xrp"}

\* an entry of the "symbols" list of GET /api/v3/exchangeInfo
Pairs ==
    [baseAsset : BaseAssets, quoteAsset : QuoteAssets,
     isSpotTradingAllowed : BOOLEAN]

\* the "symbols" lists: the pairs in any order, no pair twice
PairLists ==
    {l \in SeqsUpTo(Pairs, MaxPairs) :
        \A i, j \in DOMAIN l :
            i /= j => \/ l[i].baseAsset /= l[j].baseAsset
                      \/ l[i].quoteAsset /= l[j].quoteAsset}

\* what client.exchange_info() does: raises ClientError, or returns a dict
\* with or without the "symbols" key
NoSymbolsField == [kind |-> "dict", has_symbols |-> FALSE]

ExchangeInfos ==
    {ClientError, NoSymbolsField}
    \cup {[kind |-> "dict", has_symbols |-> TRUE, symbols |-> l] : l \in PairLists}

IsUsdcSpotTradingAllowed(symbol_data) ==
    symbol_data.quoteAsset = "USDC" /\ symbol_data.isSpotTradingAllowed

GetBinanceCoinSymbols(exchange_info) ==
    IF ~exchange_info.has_symbols
    THEN Raised("ValueError", "Unexpected Binance API response: Missing 'symbols'.")
    ELSE Returned({Lower(exchange_info.symbols[i].baseAsset) :
                      i \in {j \in DOMAIN exchange_info.symbols :
                                IsUsdcSpotTradingAllowed(exchange_info.symbols[j])}})

\* the pairs of the list whose base asset is the one asked for
Matching(symbols, symbol_name) ==
    {i \in DOMAIN symbols : Lower(symbols[i].baseAsset) = Lower(symbol_name)}

\* the loop returns at the first pair of the base asset; the exchange_info
\* property raised RuntimeError for a ClientError, which the decorator of
\* check_market_status wraps again
CheckMarketStatus(exchange_info, symbol_name) ==
    IF exchange_info.kind = "ClientError"
    THEN Wrapped("RuntimeError")
    ELSE LET symbols == IF exchange_info.has_symbols THEN exchange_info.symbols
                        ELSE <<>>
             matching == Matching(symbols, symbol_name)
         IN  IF matching = {} THEN Returned(FALSE)
             ELSE LET first == CHOOSE i \in matching : \A j \in matching : i <= j
                  IN  Returned(IsUsdcSpotTradingAllowed(symbols[first]))

CheckMarketStatusCall ==
    /\ status_call = NotCalled
    /\ \E exchange_info \in ExchangeInfos, symbol_name \in SymbolNames :
          status_call' = [exchange_info |-> exchange_info,
                          symbol_name |-> symbol_name]
                            @@ CheckMarketStatus(exchange_info, symbol_name)
    /\ UNCHANGED outside_status

\* the caller goes on to its next symbol
NextStatusCheck ==
    /\ status_call /= NotCalled
    /\ status_call' = NotCalled
    /\ UNCHANGED outside_status

NextStatus == CheckMarketStatusCall \/ NextStatusCheck

SpecStatus == InitIdle /\ [][NextStatus]_vars

\* C22: check_market_status(symbol_name) returns True if and only if the
\* exchange info contains a pair whose base asset is symbol_name
\* (case-insensitively), whose quote asset is USDC and for which spot trading
\* is allowed, that is, exactly when symbol_name.lower() is in
\* get_binance_coin_symbols() of the same exchange info, for any order of
\* the pairs.
C22_CheckMarketStatus ==
    (status_call.outcome /= "none" /\ status_call.exchange_info.kind = "dict"
        /\ status_call.exchange_info.has_symbols) =>
        /\ status_call.outcome = "returned"
        /\ status_call.value <=>
              \E i \in DOMAIN status_call.exchange_info.symbols :
                  LET pair == status_call.exchange_info.symbols[i]
                  IN  /\ Lower(pair.baseAsset) = Lower(status_call.symbol_name)
                      /\ pair.quoteAsset = "USDC"
                      /\ pair.isSpotTradingAllowed
        /\ status_call.value <=>
              Lower(status_call.symbol_name)
                  \in GetBinanceCoinSymbols(status_call.exchange_info).value

-----------------------------------------------------------------------------
(* BinanceManager.get_trade_history_last_24h *)

HistoryAssets == {"USDC", "BTC", "ETH"}

\* the account answers of a history call: ClientError, or one entry per
\* asset, zero amounts included
HistoryAccounts ==
    {ClientError}
    \cup {[kind |-> "dict", has_balances |-> TRUE, balances |-> b] :
            b \in {l \in SeqsUpTo([asset : HistoryAssets, free : {0, Unit},
                                   locked : {0}], MaxWallet) :
                      /\ Len(l) >= 1
                      /\ \A i, j \in DOMAIN l : i /= j => l[i].asset /= l[j].asset}}

\* f"{row.asset}USDC"
SymbolOf(asset) == IF asset = "BTC" THEN "BTCUSDC" ELSE "ETHUSDC"

\* the k-th trade of a symbol as the exchange returns it
ExchangeTrade(symbol, k) ==
    [f \in Range(TradeFields) \cup {"isMaker"} |->
        IF f = "symbol" THEN symbol
        ELSE IF f = "orderId" THEN ToString(k)
        ELSE "v"]

\* what client.my_trades(symbol, startTime, endTime) does for a symbol: its
\* ClientError, or the trades of the symbol in the window
MyTradesAnswers(symbol) ==
    {[kind |-> "ClientError", trades |-> <<>>]}
    \cup {[kind |-> "list", trades |-> [k \in 1..n |-> ExchangeTrade(symbol, k)]] :
            n \in 0..MaxRecords}

\* the symbols of the wallet's assets other than USDC, in the wallet's order
HistorySymbols(balances) ==
    LET other == SelectSeq(balances, LAMBDA row : row.asset /= "USDC")
    IN  [i \in DOMAIN other |-> SymbolOf(other[i].asset)]

\* get_trade_history_last_24h, from the answers of the exchange. trade_list[0]
\* of an empty list raises IndexError; 'not trade_list[0]' is True for None
\* and raises ValueError for a DataFrame, whose truth value pandas refuses to
\* give; every exception leaves through handle_binance_manager_errors.
GetTradeHistoryLast24h(account, my_trades) ==
    LET wallet == GetWalletBalances(account)
    IN  IF wallet.outcome = "raised"
        THEN Wrapped(wallet.exc)
        ELSE LET symbols == HistorySymbols(wallet.value)
                 trade_list == [i \in DOMAIN symbols |->
                                   FetchSymbolTradeHistory(my_trades[symbols[i]])]
             IN  IF FirstRaised(trade_list) /= 0
                 THEN Wrapped(trade_list[FirstRaised(trade_list)].exc)
                 ELSE IF trade_list = <<>>
                 THEN Wrapped("IndexError")
                 ELSE IF trade_list[1].is_none
                 THEN Returned(<<>>)
                 ELSE Wrapped("ValueError")

GetTradeHistoryLast24hCall ==
    /\ history_call = NotCalled
    /\ \E account \in HistoryAccounts,
          my_trades \in [Symbols -> UNION {MyTradesAnswers(s) : s \in Symbols}] :
            /\ \A s \in Symbols : my_trades[s] \in MyTradesAnswers(s)
            /\ history_call' = [account |-> account, my_trades |-> my_trades]
                                  @@ GetTradeHistoryLast24h(account, my_trades)
    /\ UNCHANGED outside_history

\* the workflow's next run
NextHistoryRun ==
    /\ history_call /= NotCalled
    /\ history_call' = NotCalled
    /\ UNCHANGED outside_history

NextHistory == GetTradeHistoryLast24hCall \/ NextHistoryRun

SpecHistory == InitIdle /\ [][NextHistory]_vars

\* the <asset>USDC symbols of the non-USDC assets with a non-zero balance
HeldSymbols(account) ==
    {SymbolOf(account.balances[i].asset) :
        i \in {j \in DOMAIN account.balances :
                  /\ account.balances[j].asset /= "USDC"
                  /\ (account.balances[j].free /= 0
                      \/ account.balances[j].locked /= 0)}}

\* the rows of a table
RowsIn(table) == {table[i] : i \in DOMAIN table}

\* the exchange answered every request of the call
Answered(call) ==
    /\ call.outcome /= "none"
    /\ call.account.kind = "dict"
    /\ \A s \in HeldSymbols(call.account) : call.my_trades[s].kind = "list"

\* C23: get_trade_history_last_24h returns one table containing the
\* last-24-hour trades of every <asset>USDC symbol of the non-USDC assets
\* with a non-zero balance, and an empty table, without error, when none of
\* those symbols has a trade in the window (no non-USDC asset, or only some
\* symbols with trades, included).
C23_TradeHistoryLast24h ==
    Answered(history_call) =>
        /\ history_call.outcome = "returned"
        /\ \A s \in HeldSymbols(history_call.account) :
              \A k \in DOMAIN history_call.my_trades[s].trades :
                  \E row \in RowsIn(history_call.value) :
                      row.symbol = s /\ row.orderId = ToString(k)
        /\ \A row \in RowsIn(history_call.value) :
              /\ row.symbol \in HeldSymbols(history_call.account)
        /\ Len(history_call.value) =
              Cardinality({<<s, k>> \in Symbols \X (1..MaxRecords) :
                              /\ s \in HeldSymbols(history_call.account)
                              /\ k \in DOMAIN history_call.my_trades[s].trades})

-----------------------------------------------------------------------------
(* The portfolio summary job: notify_portfolio_summary.main *)

\* user_config["assets"]
SummaryAssets == <<"BTC", "ETH">>

\* get_previous_month_start: the first instant of the calendar month before
\* the month of now
PreviousMonthStart(now) == now - 1

\* client.my_trades(symbol, startTime=start_time, endTime=None): the trades of
\* the symbol from start_time on, as fetch_symbol_trade_history returns them
\* and insert_trade stores them (one trade per order)
TradesSince(symbol, start_time) ==
    SelectSeq(exchange_trades,
              LAMBDA t : t.symbol = symbol /\ t.timestamp >= start_time)

\* what happens to an asset during a run: my_trades raises ClientError, or
\* answers and the database fails or not during the insert_trade that follows
SummaryAnswers ==
    {[fetch |-> "ClientError", fault |-> "none"],
     [fetch |-> "ok", fault |-> "none"],
     [fetch |-> "ok", fault |-> "execute"]}

\* the answers of the exchange during the report of the job
SummaryAccounts ==
    {ClientError,
     [kind |-> "dict", has_balances |-> TRUE,
      balances |-> <<[asset |-> "USDC", free |-> Unit, locked |-> Unit]>>]}

SummaryTickers ==
    {[s \in Symbols |-> [kind |-> "ClientError", price |-> 0]],
     [s \in Symbols |-> [kind |-> "price", price |-> 50]]}

\* the loop of main from its i-th asset on: history is Trade_History so far,
\* answers[i] what happens to the i-th asset
RECURSIVE StoreTrades(_, _, _, _)
StoreTrades(history, i, answers, start_prev_month) ==
    IF i > Len(SummaryAssets)
    THEN [history |-> history, outcome |-> "returned"]
    ELSE LET df_trades == TradesSince(SymbolOf(SummaryAssets[i]), start_prev_month)
         IN  IF answers[i].fetch = "ClientError"
             THEN [history |-> history] @@ Wrapped("ClientError")
             ELSE IF df_trades = <<>>
             THEN StoreTrades(history, i + 1, answers, start_prev_month)
             ELSE IF ~ExecuteQuery(answers[i].fault).committed
             THEN [history |-> history, outcome |-> "raised",
                   exc |-> ExecuteQuery(answers[i].fault).exc,
                   msg |-> ExecuteQuery(answers[i].fault).msg]
             ELSE StoreTrades(history \o df_trades, i + 1, answers,
                              start_prev_month)

\* the exchange fills an order of the account
Trade ==
    /\ Len(exchange_trades) < MaxTrades
    /\ \E symbol \in Symbols, is_buyer \in {"True", "False"} :
          exchange_trades' =
              Append(exchange_trades,
                     [order_id |-> Len(exchange_trades) + 1, symbol |-> symbol,
                      quantity |-> 1, quote_quantity |-> 100,
                      is_buyer |-> is_buyer, timestamp |-> today])
    /\ UNCHANGED <<trade_history, report, today, runs, outside_summary>>

\* a calendar month ends
NextMonth ==
    /\ today < MaxMonths
    /\ today' = today + 1
    /\ UNCHANGED <<trade_history, report, exchange_trades, runs, outside_summary>>

\* one run of main, once the credentials are loaded and the managers built:
\* the trades since the start of the previous month are stored, asset by
\* asset, and the report is generated and sent
RunSummaryJob ==
    /\ runs < MaxRuns
    /\ runs' = runs + 1
    /\ \E answers \in [DOMAIN SummaryAssets -> SummaryAnswers],
          account \in SummaryAccounts, db_ok \in BOOLEAN,
          ticker \in SummaryTickers, smtp_ok \in BOOLEAN :
            LET stored == StoreTrades(trade_history, 1, answers,
                                      PreviousMonthStart(today))
            IN  /\ trade_history' = stored.history
                /\ report' =
                      IF stored.outcome = "raised"
                      THEN [outcome |-> "raised", exc |-> stored.exc,
                            msg |-> stored.msg, email_sent |-> FALSE,
                            send_email_calls |-> 0, trades |-> stored.history]
                      ELSE GenerateReport(stored.history, account, db_ok, ticker,
                                          smtp_ok)
    /\ UNCHANGED <<exchange_trades, today, outside_summary>>

NextSummary == Trade \/ NextMonth \/ RunSummaryJob

SpecSummary == InitIdle /\ [][NextSummary]_vars

\* the exchange trades that are stored
StoredTrades ==
    SelectSeq(exchange_trades,
              LAMBDA t : \E i \in DOMAIN trade_history :
                            trade_history[i].order_id = t.order_id)

\* C26: after any number of runs of the portfolio summary job, each exchange
\* trade is stored at most once in Trade_History, and the spend and quantity
\* totals the valuator derives from Trade_History count every stored exchange
\* trade exactly once.
C26_TradesStoredOnce ==
    /\ \A i, j \in DOMAIN trade_history :
          i /= j => trade_history[i].order_id /= trade_history[j].order_id
    /\ trade_history /= <<>> => AssetsBalances(trade_history) = AssetsBalances(StoredTrades)

-----------------------------------------------------------------------------
(* The configuration reads of the entry points: run_dca_strategy.main,
   notify_low_balance.main and notify_portfolio_summary.main *)

EntryPoints == {"run_dca_strategy", "notify_low_balance", "notify_portfolio_summary"}

\* the keys of a user's record that the loader checks or an entry point reads
EntryFields ==
    {"assets", "amount_usd", "drop_percent", "frequency", "email", "azure_vault",
     "email_from", "email_to"}

\* the records with every key: a list of assets, a mapping from assets to
\* amounts and a mapping with the name and the url of the vault (any of their
\* keys absent), and scalars
FullUserConfigs ==
    [assets : {<<"BTC">>, <<"BTC", "ETH">>},
     amount_usd : UNION {[keys -> {Unit}] : keys \in SUBSET {"BTC", "ETH"}},
     azure_vault : UNION {[keys -> {"v"}] : keys \in SUBSET {"name", "url"}},
     drop_percent : {"v"}, frequency : {"v"}, email : {"v"},
     email_from : {"v"}, email_to : {"v"}]

\* the user records: every key, or all but one
EntryUserConfigs ==
    {[f \in keys |-> c[f]] :
        c \in FullUserConfigs,
        keys \in {k \in SUBSET EntryFields : Cardinality(EntryFields \ k) <= 1}}

\* what yaml.safe_load returns for config.yaml
EntryConfigs == {[u \in {"user_1"} |-> c] : c \in EntryUserConfigs}

\* d[key] of a dict
Subscript(d, key) ==
    IF key \in DOMAIN d THEN Returned(d[key]) ELSE Raised("KeyError", key)

\* load_credentials: user_config["azure_vault"]["name"] and ["url"]
LoadCredentials(user_config) ==
    LET vault == Subscript(user_config, "azure_vault")
    IN  IF vault.outcome = "raised" THEN vault
        ELSE IF Subscript(vault.value, "name").outcome = "raised"
        THEN Subscript(vault.value, "name")
        ELSE IF Subscript(vault.value, "url").outcome = "raised"
        THEN Subscript(vault.value, "url")
        ELSE IF vault.value["name"] = "" \/ vault.value["url"] = ""
        THEN Raised("ValueError", "Missing Azure Key Vault credentials")
        ELSE Returned(<<vault.value["name"], vault.value["url"]>>)

\* the first of a sequence of outcomes that raised, or the last one
FirstFailure(outcomes) ==
    IF FirstRaised(outcomes) /= 0 THEN outcomes[FirstRaised(outcomes)]
    ELSE outcomes[Len(outcomes)]

\* the steps of an entry point that reach the vault, the exchange, the
\* database or the mail server: they succeed, or the first of them fails
Environment(env_ok) ==
    IF env_ok THEN Returned(None) ELSE Raised("RuntimeError", "environment")

\* user_config["amount_usd"][asset_name] for each asset of user_config["assets"]
AmountsOfAssets(user_config) ==
    LET assets == Subscript(user_config, "assets")
        amounts == Subscript(user_config, "amount_usd")
    IN  IF assets.outcome = "raised" THEN assets
        ELSE IF assets.value = <<>> THEN Returned(None)
        ELSE IF amounts.outcome = "raised" THEN amounts
        ELSE FirstFailure([i \in DOMAIN assets.value |->
                              Subscript(amounts.value, assets.value[i])])

\* the steps of each main after get_user_config returned, in its order
EntrySteps(entry, user_config, env_ok) ==
    CASE entry = "run_dca_strategy" ->
            <<LoadCredentials(user_config), Environment(env_ok),
              Subscript(user_config, "drop_percent"),
              AmountsOfAssets(user_config)>>
      [] entry = "notify_low_balance" ->
            <<LoadCredentials(user_config), Environment(env_ok),
              Subscript(user_config, "email_from"),
              Subscript(user_config, "email_to"),
              Subscript(user_config, "amount_usd"), Environment(env_ok)>>
      [] entry = "notify_portfolio_summary" ->
            <<LoadCredentials(user_config), Environment(env_ok),
              Subscript(user_config, "assets"), Environment(env_ok),
              Subscript(user_config, "email_from"),
              Subscript(user_config, "email_to"), Environment(env_ok)>>

\* a run of main: get_user_config("user_1"), then the steps
MainRun(entry, cfg, env_ok) ==
    LET loaded == GetUserConfig(cfg, "user_1")
    IN  IF loaded.outcome = "raised"
        THEN [accepted |-> FALSE, outcome |-> "raised", exc |-> loaded.exc,
              msg |-> loaded.msg]
        ELSE LET last == FirstFailure(EntrySteps(entry, loaded.value, env_ok))
             IN  IF last.outcome = "raised"
                 THEN [accepted |-> TRUE, outcome |-> "raised", exc |-> last.exc,
                       msg |-> last.msg]
                 ELSE [accepted |-> TRUE, outcome |-> "returned"]

Main ==
    /\ entry_call = NotCalled
    /\ \E entry \in EntryPoints, env_ok \in BOOLEAN :
          entry_call' = [entry |-> entry, env_ok |-> env_ok]
                            @@ MainRun(entry, config, env_ok)
    /\ UNCHANGED outside_entry

\* the next scheduled run
NextMain ==
    /\ entry_call /= NotCalled
    /\ entry_call' = NotCalled
    /\ UNCHANGED outside_entry

InitEntry ==
    /\ JobIdle
    /\ config \in EntryConfigs
    /\ config_call = NotCalled
    /\ entry_call = NotCalled
    /\ FundsIdle
    /\ SetupIdle
    /\ DbIdle
    /\ SyncIdle
    /\ NormalizerIdle
    /\ NotifierIdle
    /\ StatusIdle
    /\ HistoryIdle
    /\ ExchangeIdle
    /\ CancelIdle

NextEntry == Main \/ NextMain

SpecEntry == InitEntry /\ [][NextEntry]_vars

\* the fields the entry points read are present in a user's record
FieldsPresent(user_config) ==
    /\ {"email_from", "email_to", "azure_vault", "amount_usd", "assets",
        "drop_percent"} \subseteq DOMAIN user_config
    /\ {"name", "url"} \subseteq DOMAIN user_config["azure_vault"]
    /\ \A i \in DOMAIN user_config["assets"] :
          user_config["assets"][i] \in DOMAIN user_config["amount_usd"]

\* C27: configuration is checked once at load: if get_user_config accepts a
\* user's record, every configuration field the entry points read afterwards
\* (email_from, email_to, azure_vault.name, azure_vault.url, amount_usd[asset]
\* for each asset in assets, drop_percent) is present, and no run of an entry
\* point fails later with a missing-configuration-key error.
C27_ConfigCheckedAtLoad ==
    (entry_call.outcome /= "none" /\ entry_call.accepted) =>
        /\ FieldsPresent(config["user_1"])
        /\ ~(entry_call.outcome = "raised" /\ entry_call.exc = "KeyError")

-----------------------------------------------------------------------------
(* cancel_all_open_orders_for_asset *)

OrderIds == {11, 12, 13, 14}

\* what client.get_open_orders(symbol) does: its ClientError, or the open
\* orders of the symbol, each order once
OpenOrdersResponses ==
    {[kind |-> "ClientError", orders |-> <<>>]}
    \cup {[kind |-> "list", orders |-> o] :
            o \in {l \in SeqsUpTo(OrderIds, MaxOrders) :
                      \A i, j \in DOMAIN l : i /= j => l[i] /= l[j]}}

\* what client.cancel_order does for the i-th order of the list
CancelResponses == [1..MaxOrders -> {"ok", "ClientError"}]

\* the first order whose cancellation fails, 0 if none does
FirstFailed(orders, cancel) ==
    IF \A i \in DOMAIN orders : cancel[i] = "ok" THEN 0
    ELSE CHOOSE i \in DOMAIN orders :
            /\ cancel[i] = "ClientError"
            /\ \A j \in DOMAIN orders : cancel[j] = "ClientError" => i <= j

\* the calls of cancel_order for the first n orders
CancelCalls(symbol, orders, n) ==
    [i \in 1..n |-> [symbol |-> symbol, order_id |-> orders[i]]]

\* a loop that logs a failed cancellation and goes on
CancelAllOpenOrdersSkippingFailures(symbol, open_orders, cancel) ==
    IF open_orders.kind = "ClientError"
    THEN Wrapped("ClientError") @@ [cancel_calls |-> <<>>]
    ELSE Returned(None)
            @@ [cancel_calls |->
                    CancelCalls(symbol, open_orders.orders, Len(open_orders.orders))]

\* cancel_all_open_orders_for_asset: the outcome and the calls of
\* cancel_order it made; get_open_orders and cancel_order are wrapped by
\* handle_binance_manager_errors and nothing catches what they raise
CancelAllOpenOrders(symbol, open_orders, cancel) ==
    IF open_orders.kind = "ClientError"
    THEN Wrapped("ClientError") @@ [cancel_calls |-> <<>>]
    ELSE IF open_orders.orders = <<>>
    THEN Returned(None) @@ [cancel_calls |-> <<>>]
    ELSE LET failed == FirstFailed(open_orders.orders, cancel)
         IN  IF failed = 0
             THEN Returned(None)
                     @@ [cancel_calls |->
                            CancelCalls(symbol, open_orders.orders,
                                        Len(open_orders.orders))]
             ELSE Wrapped("ClientError")
                     @@ [cancel_calls |->
                            CancelCalls(symbol, open_orders.orders, failed)]

CancelAllOpenOrdersCall ==
    /\ cancel_call = NotCalled
    /\ \E symbol \in Symbols, open_orders \in OpenOrdersResponses,
          cancel \in CancelResponses :
            cancel_call' = [symbol |-> symbol, open_orders |-> open_orders,
                            cancel |-> cancel]
                              @@ CancelAllOpenOrders(symbol, open_orders, cancel)
    /\ UNCHANGED outside_cancel

\* the strategy goes on to its next asset
NextCancel ==
    /\ cancel_call /= NotCalled
    /\ cancel_call' = NotCalled
    /\ UNCHANGED outside_cancel

NextCancels == CancelAllOpenOrdersCall \/ NextCancel

SpecCancel == InitIdle /\ [][NextCancels]_vars

\* the positions of the list whose cancellation was asked for
Asked(call, order_id) ==
    {i \in DOMAIN call.cancel_calls : call.cancel_calls[i].order_id = order_id}

\* the positions of the open orders before the first failure, or at it
Reached(call) ==
    {i \in DOMAIN call.open_orders.orders :
        \A j \in 1..(i - 1) : call.cancel[j] = "ok"}

\* C29: cancel_all_open_orders_for_asset(symbol) issues exactly one
\* cancel_order call for each open order get_open_orders(symbol) returned, in
\* the returned order, and none for another symbol or order id; with no open
\* orders it issues none; if a cancellation fails, the error propagates and
\* the orders after it are left uncancelled.
C29_CancelAllOpenOrders ==
    (cancel_call.outcome /= "none" /\ cancel_call.open_orders.kind = "list") =>
        LET orders == cancel_call.open_orders.orders
            calls == cancel_call.cancel_calls
        IN  /\ \A i \in DOMAIN calls :
                  /\ calls[i].symbol = cancel_call.symbol
                  /\ calls[i].order_id = orders[i]
            /\ DOMAIN calls = Reached(cancel_call)
            /\ \A i \in DOMAIN orders :
                  Cardinality(Asked(cancel_call, orders[i]))
                      = IF i \in Reached(cancel_call) THEN 1 ELSE 0
            /\ orders = <<>> => calls = <<>> /\ cancel_call.outcome = "returned"
            /\ IF \E i \in DOMAIN orders : cancel_call.cancel[i] = "ClientError"
               THEN cancel_call.outcome = "raised" /\ cancel_call.exc = "RuntimeError"
               ELSE cancel_call.outcome = "returned" /\ Len(calls) = Len(orders)

\* the first of two open orders could not be cancelled: the error propagated
\* and the second was left alone
C29_Witness ==
    /\ cancel_call.outcome = "raised"
    /\ Len(cancel_call.open_orders.orders) = 2
    /\ cancel_call.cancel[1] = "ClientError"
    /\ Len(cancel_call.cancel_calls) = 1

-----------------------------------------------------------------------------
(* Calls of create_order *)

\* a call of create_order, with the answers the exchange gives during it
CreateOrder ==
    /\ order_call = NotCalled
    /\ \E symbol \in Symbols, side \in Sides, order_type \in OrderTypes,
          quantity \in Quantities, price \in PriceArgs,
          ticker \in OrderTickerResponses, account \in AccountResponses,
          new_order \in NewOrderResponses :
            order_call' = CreateOrderRun(symbol, side, order_type, quantity, price,
                                         ticker, account, new_order)
    /\ UNCHANGED <<trade_history, report, wallet_call, limits_call, min_trade_amount, aux_vars>>

\* the caller goes on to its next order
NextOrder ==
    /\ order_call /= NotCalled
    /\ order_call' = NotCalled
    /\ UNCHANGED <<trade_history, report, wallet_call, limits_call, min_trade_amount, aux_vars>>

InitOrder == InitHelper

NextOrders == CreateOrder \/ NextOrder

SpecOrder == InitOrder /\ [][NextOrders]_vars

-----------------------------------------------------------------------------
(* Properties of get_wallet_balances *)

\* the positions of the entries of a balances list that hold an amount
HeldAt(balances) ==
    {i \in DOMAIN balances : balances[i].free /= 0 \/ balances[i].locked /= 0}

\* the position of the k-th entry that holds an amount
KthHeld(balances, k) ==
    CHOOSE i \in HeldAt(balances) :
        Cardinality({j \in HeldAt(balances) : j <= i}) = k

\* C7: get_wallet_balances returns exactly the wallet entries with free /= 0
\* or locked /= 0, in wallet order; a response without "balances" is an error.
C7_WalletFilter ==
    /\ (wallet_call.outcome /= "none" /\ wallet_call.response.kind = "dict"
          /\ wallet_call.response.has_balances) =>
            /\ wallet_call.outcome = "returned"
            /\ Len(wallet_call.value) = Cardinality(HeldAt(wallet_call.response.balances))
            /\ \A k \in DOMAIN wallet_call.value :
                  /\ wallet_call.value[k] =
                        wallet_call.response.balances[
                            KthHeld(wallet_call.response.balances, k)]
                  /\ ~(wallet_call.value[k].free = 0 /\ wallet_call.value[k].locked = 0)
    /\ (wallet_call.outcome /= "none" /\ wallet_call.response.kind = "dict"
          /\ ~wallet_call.response.has_balances) =>
            (wallet_call.outcome = "raised" /\ wallet_call.exc = "ValueError")

\* a wallet with an empty entry and an entry that is only locked was filtered
C7_Witness ==
    /\ wallet_call.outcome = "returned"
    /\ Len(wallet_call.response.balances) = 2
    /\ wallet_call.response.balances[1].free = 0
    /\ wallet_call.response.balances[1].locked = 0
    /\ wallet_call.response.balances[2].free = 0
    /\ wallet_call.response.balances[2].locked /= 0
    /\ Len(wallet_call.value) = 1

\* C8: validate_trade_limits returns True exactly when usdc_amount >=
\* min_trade_amount.
C8_ValidateTradeLimits ==
    limits_call.outcome = "returned" =>
        (limits_call.value <=> limits_call.usdc_amount >= min_trade_amount)

-----------------------------------------------------------------------------
(* Properties of create_order *)

\* the estimated cost of the order: quantity * price, with the ticker price
\* when no price is given
EstimatedCost(call) ==
    call.quantity * (IF call.price.is_none THEN call.ticker.price ELSE call.price.value)

\* the free amount of an asset in the account the exchange returned; none
\* when the asset has no entry or the entry holds nothing
FreeOf(account, asset) ==
    LET held == {i \in HeldAt(account.balances) : account.balances[i].asset = asset}
    IN  IF held = {} THEN -1 ELSE account.balances[CHOOSE i \in held : TRUE].free

\* the asset and the amount an order needs
RequiredAsset(call) == IF call.side = "BUY" THEN "USDC" ELSE BaseAsset(call.symbol)
RequiredFunds(call) == IF call.side = "BUY" THEN EstimatedCost(call) ELSE call.quantity

SnapshotTaken(call) ==
    /\ call.outcome /= "none"
    /\ call.account_called
    /\ call.account.kind = "dict"
    /\ call.account.has_balances

\* C9: no order is submitted whose estimated cost is below min_trade_amount.
C9_NoOrderBelowMinimum ==
    (order_call.outcome /= "none" /\ order_call.new_order_called) =>
        EstimatedCost(order_call) >= min_trade_amount

\* C10: an order is submitted only if the wallet snapshot of the call holds
\* enough free funds of the required asset; with a snapshot that does not, the
\* call returns "insufficient funds" and submits nothing.
C10_FundsBeforeOrder ==
    /\ (order_call.outcome /= "none" /\ order_call.new_order_called) =>
          /\ SnapshotTaken(order_call)
          /\ FreeOf(order_call.account, RequiredAsset(order_call))
                >= RequiredFunds(order_call)
    /\ (SnapshotTaken(order_call)
          /\ FreeOf(order_call.account, RequiredAsset(order_call))
                < RequiredFunds(order_call)) =>
          /\ order_call.outcome = "returned"
          /\ order_call.value = [status |-> "failed", reason |-> "insufficient funds"]
          /\ ~order_call.new_order_called

\* a SELL was submitted on a snapshot that holds the base asset
C10_Witness ==
    /\ order_call.outcome = "returned"
    /\ order_call.new_order_called
    /\ order_call.side = "SELL"
    /\ FreeOf(order_call.account, "BTC") >= order_call.quantity

\* the call made no request to the exchange: no price lookup, no wallet fetch,
\* no order submission
NoExchangeCall(call) ==
    /\ ~call.ticker_called
    /\ ~call.account_called
    /\ ~call.new_order_called

InvalidSide(call) == call.outcome /= "none" /\ call.side \notin {"BUY", "SELL"}

\* C11 (as stated): create_order with a side other than BUY or SELL raises
\* ValueError to its caller and makes no call to the exchange.
C11_InvalidSideValueError ==
    InvalidSide(order_call) =>
        /\ order_call.outcome = "raised"
        /\ order_call.exc = "ValueError"
        /\ NoExchangeCall(order_call)

\* C11 (amended): create_order with a side other than BUY or SELL ends in the
\* RuntimeError "Unexpected error: ..." the decorator makes of the ValueError of
\* the body, and makes no call to the exchange.
C11_InvalidSideRejected ==
    InvalidSide(order_call) =>
        /\ order_call.outcome = "raised"
        /\ order_call.exc = "RuntimeError"
        /\ order_call.msg = "Unexpected error"
        /\ NoExchangeCall(order_call)

\* create_order was called with side HOLD, no price given, and ended in an error
C11_Witness ==
    /\ order_call.outcome = "raised"
    /\ order_call.side = "HOLD"
    /\ order_call.price.is_none

\* C28: every error that leaves create_order, a method wrapped by
\* handle_binance_manager_errors, is a RuntimeError: the ClientError of the
\* exchange call of its body is "Binance API error: ...", every other
\* exception of the body, its ValueError validations and the errors of the
\* wrapped calls nested in it included, is "Unexpected error: ..."; a call
\* that raises nothing returns the result of the body.
C28_RuntimeErrorOnly ==
    order_call.outcome /= "none" =>
        /\ order_call.outcome = "raised" =>
              /\ order_call.exc = "RuntimeError"
              /\ order_call.msg = IF order_call.new_order_called
                                  THEN "Binance API error"
                                  ELSE "Unexpected error"
        /\ (order_call.side \in {"BUY", "SELL"} /\ ~Truthy(order_call.price)
                /\ order_call.ticker.kind = "ClientError") =>
              /\ order_call.outcome = "raised"
              /\ order_call.msg = "Unexpected error"
        /\ order_call.outcome = "returned" =>
              order_call.value \in
                  {[status |-> "NEW", reason |-> "none"],
                   [status |-> "failed", reason |-> "insufficient funds"],
                   [status |-> "failed", reason |-> "trade amount too low"]}

\* the price lookup nested in create_order met a ClientError, which reached
\* the caller as the RuntimeError "Unexpected error: ..."
C28_Witness ==
    /\ order_call.outcome = "raised"
    /\ order_call.side = "BUY"
    /\ order_call.ticker_called
    /\ order_call.ticker.kind = "ClientError"
    /\ order_call.exc = "RuntimeError"
    /\ order_call.msg = "Unexpected error"

====
